---- MODULE Spec2Model ----
EXTENDS Integers, Sequences, FiniteSets, TLC

(***************************************************************************)
(* Model of the HubSpot MCP server: the tool gateway (server.py,           *)
(* handle_list_tools / handle_call_tool) and the upstream access layer     *)
(* (client.py, HubSpotClient).  One invocation advances by one step per    *)
(* upstream call; each upstream call either returns or raises.             *)
(***************************************************************************)

VARIABLES
    contacts,   \* upstream contact objects, oldest first (each a property map)
    companies,  \* upstream company objects, oldest first (each a property map)
    g,          \* the call_tool invocation in progress
    a,          \* the HubSpotClient operation in progress
    calls,      \* upstream calls issued by the invocation in progress, in order
    now,        \* the clock, in epoch milliseconds
    served,     \* how many invocations have been received
    prev,       \* history: the last completed invocation
    input,      \* a value handed to a pure function of the program
    output,     \* what the function made of it
    zone,       \* the local time zone of the process
    peer        \* an invocation in progress in a second gateway process

vars == <<contacts, companies, g, a, calls, now, served, prev, input, output, zone, peer>>

-----------------------------------------------------------------------------
(* Bounds of the model *)

\* a behaviour receives at most this many invocations
MaxCalls == 2

\* the longest list of the trees offered to convert_datetime_fields
MaxItems == 2

-----------------------------------------------------------------------------
(* Dynamic values of an argument bag (JSON values) *)

NoProps == [k \in {} |-> 0]

\* a scalar: what a property of an upstream object holds
Sc(t, n, s) == [t |-> t, n |-> n, s |-> s]

ScNull == Sc("null", 0, <<>>)

ScStr(cs) == Sc("str", 0, cs)

ScInt(i) == Sc("int", i, <<>>)

\* a value of the argument bag: a scalar, a list (n its length) or a mapping d
Val(t, n, s, d) == [t |-> t, n |-> n, s |-> s, d |-> d]

Null == Val("null", 0, <<>>, NoProps)

IntV(i) == Val("int", i, <<>>, NoProps)

\* a float, given in tenths: FloatV(37) is 3.7
FloatV(tenths) == Val("float", tenths, <<>>, NoProps)

BoolV(b) == Val("bool", IF b THEN 1 ELSE 0, <<>>, NoProps)

StrV(cs) == Val("str", 0, cs, NoProps)

ListV(len) == Val("list", len, <<>>, NoProps)

DictV(d) == Val("dict", 0, <<>>, d)

Scalar(v) == Sc(v.t, v.n, v.s)

\* Python truthiness (`if company:`, `if not arguments`)
Truthy(v) ==
    CASE v.t = "null" -> FALSE
      [] v.t = "int" -> v.n # 0
      [] v.t = "float" -> v.n # 0
      [] v.t = "bool" -> v.n = 1
      [] v.t = "str" -> v.s # <<>>
      [] v.t = "list" -> v.n > 0
      [] v.t = "dict" -> DOMAIN v.d # {}
      [] OTHER -> TRUE

-----------------------------------------------------------------------------
(* Exceptions: a class name and a message (its str()) *)

Exc(type, msg) == [type |-> type, msg |-> msg]

NoExc == Exc("none", <<>>)

\* the classes an upstream call can raise: the ApiException class that
\* server.py and client.py import (hubspot.crm.contacts.exceptions), the
\* ApiException classes of the other generated API packages, and anything
\* else (connection errors, timeouts, undecodable bodies)
ContactsApiException == "hubspot.crm.contacts.exceptions.ApiException"

CompaniesApiException == "hubspot.crm.companies.exceptions.ApiException"

AssociationsApiException == "hubspot.crm.associations.v4.exceptions.ApiException"

TransportError == "requests.exceptions.RequestException"

\* `except ApiException` of server.py line 7 / client.py line 8
IsApiException(e) == e.type = ContactsApiException

\* `except Exception`: every class of the model derives from Exception
IsException(e) == e.type # "none"

-----------------------------------------------------------------------------
(* int(): the coercion the gateway applies to days and limit *)

Digits == <<"0", "1", "2", "3", "4", "5", "6", "7", "8", "9">>

IsDigit(c) == \E i \in 1..Len(Digits) : Digits[i] = c

DigitVal(c) == (CHOOSE i \in 1..Len(Digits) : Digits[i] = c) - 1

RECURSIVE LStrip(_)
LStrip(cs) == IF cs # <<>> /\ Head(cs) = " " THEN LStrip(Tail(cs)) ELSE cs

RECURSIVE RStrip(_)
RStrip(cs) ==
    IF cs # <<>> /\ cs[Len(cs)] = " "
    THEN RStrip(SubSeq(cs, 1, Len(cs) - 1))
    ELSE cs

RECURSIVE DigitsValue(_, _)
DigitsValue(cs, acc) ==
    IF cs = <<>> THEN acc
    ELSE DigitsValue(Tail(cs), acc * 10 + DigitVal(Head(cs)))

\* float -> int truncates toward zero
Trunc(tenths) ==
    IF tenths >= 0 THEN tenths \div 10 ELSE -((-tenths) \div 10)

\* int(str): surrounding blanks stripped, an optional sign, then digits only
ParseInt(cs) ==
    LET t == RStrip(LStrip(cs))
        signed == t # <<>> /\ Head(t) \in {"-", "+"}
        body == IF signed THEN Tail(t) ELSE t
        ok == body # <<>> /\ \A i \in 1..Len(body) : IsDigit(body[i])
        mag == IF ok THEN DigitsValue(body, 0) ELSE 0
    IN  [ok |-> ok, n |-> IF signed /\ Head(t) = "-" THEN -mag ELSE mag]

\* int(v): the value, or the exception int() raises
PyInt(v) ==
    CASE v.t \in {"int", "bool"} -> [exc |-> NoExc, n |-> v.n]
      [] v.t = "float" -> [exc |-> NoExc, n |-> Trunc(v.n)]
      [] v.t = "str" ->
            IF ParseInt(v.s).ok
            THEN [exc |-> NoExc, n |-> ParseInt(v.s).n]
            ELSE [exc |-> Exc("ValueError", <<"invalid literal for int()">>), n |-> 0]
      [] OTHER -> [exc |-> Exc("TypeError", <<"int() argument must be a string or a number">>), n |-> 0]

IntOrDefault_NoDefault(v, default) == PyInt(v)

\* `int(x) if x is not None else default`
IntOrDefault(v, default) ==
    IF v.t = "null" THEN [exc |-> NoExc, n |-> default] ELSE PyInt(v)

-----------------------------------------------------------------------------
(* Argument bags: `arguments: dict[str, Any] | None` *)

Arguments(absent, m) == [absent |-> absent, m |-> m]

NoArguments == Arguments(TRUE, NoProps)

\* `not arguments`: None or the empty dict
NotArguments(arguments) == arguments.absent \/ DOMAIN arguments.m = {}

\* `key in arguments`
Has(arguments, key) == key \in DOMAIN arguments.m

\* `arguments[key]` where the key is known to be present
Get(arguments, key) == arguments.m[key]

\* `arguments.get(key, default)`
GetOr(arguments, key, default) ==
    IF Has(arguments, key) THEN arguments.m[key] ELSE default

\* `arguments.get(key, default) if arguments else default`
GetIfArguments(arguments, key, default) ==
    IF NotArguments(arguments) THEN default ELSE GetOr(arguments, key, default)

KeyError(key) == Exc("KeyError", <<"'", key, "'">>)

ValueError(msg) == Exc("ValueError", msg)

AttributeError(msg) == Exc("AttributeError", msg)

-----------------------------------------------------------------------------
(* What an Access Layer operation returns, and what call_tool returns *)

\* the str an operation returns: json.dumps of a list, or of {"error": msg}
Payload(kind, msg, data) == [kind |-> kind, msg |-> msg, data |-> data]

NoPayload == Payload("none", <<>>, <<>>)

DataPayload(data) == Payload("data", <<>>, data)

\* json.dumps({"error": str(e)})
ErrorPayload(e) == Payload("error", e.msg, <<>>)

\* the text of a content item: a prefix followed by a message, by the
\* representation of an upstream object, or by an operation's payload
Text(prefix, msg, obj, payload) ==
    [prefix |-> prefix, msg |-> msg, obj |-> obj, payload |-> payload]

\* types.TextContent(type="text", text=...)
TextContent(text) == [type |-> "text", text |-> text]

\* what handle_call_tool hands back to its caller
Returned(content) == [raised |-> FALSE, exc |-> NoExc, content |-> content]

Propagated(e) == [raised |-> TRUE, exc |-> e, content |-> <<>>]

NoReturn == [raised |-> FALSE, exc |-> NoExc, content |-> <<>>]

TopLevelExcept_ApiOnly(e) ==
    IF IsApiException(e)
    THEN Returned(<<TextContent(Text("HubSpot API error: ", e.msg, NoProps, NoPayload))>>)
    ELSE Propagated(e)

\* the except clauses that close handle_call_tool's try
TopLevelExcept(e) ==
    IF IsApiException(e)
    THEN Returned(<<TextContent(Text("HubSpot API error: ", e.msg, NoProps, NoPayload))>>)
    ELSE IF IsException(e)
    THEN Returned(<<TextContent(Text("Error: ", e.msg, NoProps, NoPayload))>>)
    ELSE Propagated(e)

\* the `except ApiException` that closes the try of the two create branches
CreateExcept(e) ==
    IF IsApiException(e)
    THEN Returned(<<TextContent(Text("HubSpot API error: ", e.msg, NoProps, NoPayload))>>)
    ELSE TopLevelExcept(e)

-----------------------------------------------------------------------------
(* The catalog: handle_list_tools *)

Tool(name, properties, required) ==
    [name |-> name, properties |-> properties, required |-> required]

handle_list_tools_Orphan ==
    << Tool("hubspot_create_contact", {"firstname", "lastname", "email", "properties"}, {"firstname", "lastname"}),
       Tool("hubspot_get_contacts", {"limit"}, {}) >>

handle_list_tools ==
    << Tool("hubspot_create_contact", {"firstname", "lastname", "email", "properties"}, {"firstname", "lastname"}),
       Tool("hubspot_create_company", {"name", "properties"}, {"name"}),
       Tool("hubspot_get_company_activity", {"company_id"}, {"company_id"}),
       Tool("hubspot_get_recent_engagements", {"days", "limit"}, {}),
       Tool("hubspot_get_active_companies", {"limit"}, {}),
       Tool("hubspot_get_active_contacts", {"limit"}, {}),
       Tool("hubspot_conversations_recent", {"limit"}, {}),
       Tool("hubspot_conversations_inboxes", {"limit"}, {}),
       Tool("hubspot_conversations_channels_for_inbox", {"inbox_id"}, {"inbox_id"}),
       Tool("hubspot_conversations_all_channels", {}, {}),
       Tool("hubspot_conversations_threads_for_inbox", {"inbox_id", "limit"}, {"inbox_id"}),
       Tool("hubspot_conversations_threads_for_channel", {"channel_id", "limit"}, {"channel_id"}),
       Tool("hubspot_conversations_thread_messages", {"thread_id", "limit"}, {"thread_id"}),
       Tool("hubspot_conversations_thread_latest_message", {"thread_id"}, {"thread_id"}) >>

\* the JSON type each inputSchema declares for a parameter
ParamType(param) ==
    CASE param \in {"days", "limit"} -> "int"
      [] param = "properties" -> "dict"
      [] OTHER -> "str"

CatalogNames == {handle_list_tools[i].name : i \in 1..Len(handle_list_tools)}

CatalogTool(name) ==
    handle_list_tools[CHOOSE i \in 1..Len(handle_list_tools) : handle_list_tools[i].name = name]

\* the methods class HubSpotClient defines
HubSpotClientMethods ==
    {"get_recent_companies", "get_recent_contacts", "get_company_activity",
     "get_recent_engagements", "get_recent_conversations", "get_channel_accounts"}

-----------------------------------------------------------------------------
(* handle_call_tool, from its entry to its first upstream call.  A branch  *)
(* ends by raising, by issuing the idempotency search, or by calling a     *)
(* HubSpotClient method.                                                   *)

Entry(kind, exc, api, filters, op, params) ==
    [kind |-> kind, exc |-> exc, api |-> api, filters |-> filters, op |-> op, params |-> params]

Raise(e) == Entry("raise", e, "", NoProps, "", NoProps)

Search(api, filters) == Entry("search", NoExc, api, filters, "", NoProps)

Delegate(op, params) == Entry("delegate", NoExc, "", NoProps, op, params)

\* lines 205-246
hubspot_create_contact(arguments) ==
    IF NotArguments(arguments)
    THEN Raise(ValueError(<<"Missing arguments for create_contact">>))
    ELSE IF ~Has(arguments, "firstname") THEN Raise(KeyError("firstname"))
    ELSE IF ~Has(arguments, "lastname") THEN Raise(KeyError("lastname"))
    ELSE LET properties == GetOr(arguments, "properties", DictV(NoProps))
         IN  IF properties.t # "dict"
             THEN Raise(AttributeError(<<"object has no attribute 'get'">>))
             ELSE LET company == IF "company" \in DOMAIN properties.d
                                 THEN properties.d["company"]
                                 ELSE ScNull
                      names == ("firstname" :> Scalar(Get(arguments, "firstname")))
                               @@ ("lastname" :> Scalar(Get(arguments, "lastname")))
                  IN  Search("contacts",
                             IF Truthy(company)
                             THEN names @@ ("company" :> company)
                             ELSE names)

\* lines 282-306
hubspot_create_company(arguments) ==
    IF NotArguments(arguments)
    THEN Raise(ValueError(<<"Missing arguments for create_company">>))
    ELSE IF ~Has(arguments, "name") THEN Raise(KeyError("name"))
    ELSE Search("companies", "name" :> Scalar(Get(arguments, "name")))

hubspot_get_company_activity_get(arguments) ==
    IF NotArguments(arguments)
    THEN Raise(ValueError(<<"Missing arguments for get_company_activity">>))
    ELSE Delegate("get_company_activity", "company_id" :> GetOr(arguments, "company_id", Null))

\* lines 337-340
hubspot_get_company_activity(arguments) ==
    IF NotArguments(arguments)
    THEN Raise(ValueError(<<"Missing arguments for get_company_activity">>))
    ELSE IF ~Has(arguments, "company_id") THEN Raise(KeyError("company_id"))
    ELSE Delegate("get_company_activity", "company_id" :> Get(arguments, "company_id"))

\* lines 343-353
hubspot_get_recent_engagements(arguments) ==
    LET days == IntOrDefault(GetIfArguments(arguments, "days", IntV(7)), 7)
        limit == IntOrDefault(GetIfArguments(arguments, "limit", IntV(50)), 50)
    IN  IF days.exc # NoExc THEN Raise(days.exc)
        ELSE IF limit.exc # NoExc THEN Raise(limit.exc)
        ELSE Delegate("get_recent_engagements",
                      ("days" :> IntV(days.n)) @@ ("limit" :> IntV(limit.n)))

\* the shape of lines 356-364, 367-375, 378-386 and 390-396
LimitBranch(arguments, op) ==
    LET limit == IntOrDefault(GetIfArguments(arguments, "limit", IntV(10)), 10)
    IN  IF limit.exc # NoExc THEN Raise(limit.exc)
        ELSE Delegate(op, "limit" :> IntV(limit.n))

hubspot_get_active_companies(arguments) == LimitBranch(arguments, "get_recent_companies")

hubspot_get_active_contacts(arguments) == LimitBranch(arguments, "get_recent_contacts")

hubspot_conversations_recent(arguments) == LimitBranch(arguments, "get_recent_conversations")

hubspot_conversations_inboxes(arguments) == LimitBranch(arguments, "get_inboxes")

\* the shape of lines 399-404 and 448-453
IdBranch(arguments, key, op) ==
    IF NotArguments(arguments) \/ ~Has(arguments, key)
    THEN Raise(ValueError(<<"Missing ", key, " argument">>))
    ELSE Delegate(op, key :> Get(arguments, key))

\* the shape of lines 412-421, 424-433 and 436-445
IdLimitBranch(arguments, key, op) ==
    IF NotArguments(arguments) \/ ~Has(arguments, key)
    THEN Raise(ValueError(<<"Missing ", key, " argument">>))
    ELSE LET limit == IntOrDefault(GetOr(arguments, "limit", IntV(10)), 10)
         IN  IF limit.exc # NoExc THEN Raise(limit.exc)
             ELSE Delegate(op, (key :> Get(arguments, key)) @@ ("limit" :> IntV(limit.n)))

hubspot_conversations_channels_for_inbox(arguments) ==
    IdBranch(arguments, "inbox_id", "get_channels_for_inbox")

\* lines 407-409
hubspot_conversations_all_channels(arguments) == Delegate("get_all_channels", NoProps)

hubspot_conversations_threads_for_inbox(arguments) ==
    IdLimitBranch(arguments, "inbox_id", "get_threads_for_inbox")

hubspot_conversations_threads_for_channel(arguments) ==
    IdLimitBranch(arguments, "channel_id", "get_threads_for_channel")

hubspot_conversations_thread_messages(arguments) ==
    IdLimitBranch(arguments, "thread_id", "get_thread_messages")

hubspot_conversations_thread_latest_message(arguments) ==
    IdBranch(arguments, "thread_id", "get_thread_latest_message")

UnknownTool_NoName(name) == Raise(ValueError(<<"Unknown tool">>))

\* lines 456-457
UnknownTool(name) == Raise(ValueError(<<"Unknown tool: ", name>>))

\* the if/elif chain on name, lines 205-457
Dispatch(name, arguments) ==
    CASE name = "hubspot_create_contact" -> hubspot_create_contact(arguments)
      [] name = "hubspot_create_company" -> hubspot_create_company(arguments)
      [] name = "hubspot_get_company_activity" -> hubspot_get_company_activity(arguments)
      [] name = "hubspot_get_recent_engagements" -> hubspot_get_recent_engagements(arguments)
      [] name = "hubspot_get_active_companies" -> hubspot_get_active_companies(arguments)
      [] name = "hubspot_get_active_contacts" -> hubspot_get_active_contacts(arguments)
      [] name = "hubspot_conversations_recent" -> hubspot_conversations_recent(arguments)
      [] name = "hubspot_conversations_inboxes" -> hubspot_conversations_inboxes(arguments)
      [] name = "hubspot_conversations_channels_for_inbox" ->
            hubspot_conversations_channels_for_inbox(arguments)
      [] name = "hubspot_conversations_all_channels" ->
            hubspot_conversations_all_channels(arguments)
      [] name = "hubspot_conversations_threads_for_inbox" ->
            hubspot_conversations_threads_for_inbox(arguments)
      [] name = "hubspot_conversations_threads_for_channel" ->
            hubspot_conversations_threads_for_channel(arguments)
      [] name = "hubspot_conversations_thread_messages" ->
            hubspot_conversations_thread_messages(arguments)
      [] name = "hubspot_conversations_thread_latest_message" ->
            hubspot_conversations_thread_latest_message(arguments)
      [] OTHER -> UnknownTool(name)

\* dict.update(other) as lines 267 and 322 use it: other's keys win; an
\* empty list or empty string adds nothing; anything else is no mapping
DictUpdate(properties, other) ==
    CASE other.t = "dict" -> [exc |-> NoExc, d |-> other.d @@ properties]
      [] other.t = "list" /\ other.n = 0 -> [exc |-> NoExc, d |-> properties]
      [] other.t = "str" /\ other.s = <<>> -> [exc |-> NoExc, d |-> properties]
      [] other.t = "str" -> [exc |-> ValueError(<<"dictionary update sequence element #0 has length 1; 2 is required">>), d |-> properties]
      [] OTHER -> [exc |-> Exc("TypeError", <<"object is not iterable">>), d |-> properties]

\* lines 256-267: the properties of the contact to create
ContactProperties(arguments) ==
    LET names == ("firstname" :> Scalar(Get(arguments, "firstname")))
                 @@ ("lastname" :> Scalar(Get(arguments, "lastname")))
        withEmail == IF Has(arguments, "email")
                     THEN ("email" :> Scalar(Get(arguments, "email"))) @@ names
                     ELSE names
    IN  IF Has(arguments, "properties")
        THEN DictUpdate(withEmail, Get(arguments, "properties"))
        ELSE [exc |-> NoExc, d |-> withEmail]

\* lines 316-322: the properties of the company to create
CompanyProperties(arguments) ==
    LET names == "name" :> Scalar(Get(arguments, "name"))
    IN  IF Has(arguments, "properties")
        THEN DictUpdate(names, Get(arguments, "properties"))
        ELSE [exc |-> NoExc, d |-> names]

-----------------------------------------------------------------------------
(* Upstream JSON and the engagement formatting of client.py *)

\* dict.get(key, default)
JGet(obj, key, default) == IF key \in DOMAIN obj THEN obj[key] ELSE default

None == ScNull

EmptyString == ScStr(<<>>)

EmptyMapping == NoProps

EmptyList == <<>>

PyOr_Second(x, y) == y

\* `x or y`
PyOr(x, y) == IF Truthy(x) THEN x ELSE y

\* an engagement type as upstream JSON holds it
TypeOf(name) == ScStr(<<name>>)

\* lines 132-205 (get_company_activity): one raw engagement record to its formatted record
FormatActivity(engagement_response) ==
    LET engagement_data == JGet(engagement_response, "engagement", EmptyMapping)
        metadata == JGet(engagement_response, "metadata", EmptyMapping)
        type == JGet(engagement_data, "type", None)
        formatted_engagement ==
            [id |-> JGet(engagement_data, "id", None),
             type |-> JGet(engagement_data, "type", None),
             created_at |-> JGet(engagement_data, "createdAt", None),
             last_updated |-> JGet(engagement_data, "lastUpdated", None),
             created_by |-> JGet(engagement_data, "createdBy", None),
             modified_by |-> JGet(engagement_data, "modifiedBy", None),
             timestamp |-> JGet(engagement_data, "timestamp", None),
             associations |-> JGet(engagement_response, "associations", EmptyMapping)]
        recipients(key) ==
            LET list == JGet(metadata, key, EmptyList)
            IN  [i \in 1..Len(list) |->
                    [raw |-> JGet(list[i], "raw", EmptyString),
                     email |-> JGet(list[i], "email", EmptyString),
                     firstName |-> JGet(list[i], "firstName", EmptyString),
                     lastName |-> JGet(list[i], "lastName", EmptyString)]]
    IN  CASE type = TypeOf("NOTE") ->
                ("content" :> JGet(metadata, "body", EmptyString)) @@ formatted_engagement
          [] type = TypeOf("EMAIL") ->
                ("content" :>
                    [subject |-> JGet(metadata, "subject", EmptyString),
                     from |-> [raw |-> JGet(JGet(metadata, "from", EmptyMapping), "raw", EmptyString),
                               email |-> JGet(JGet(metadata, "from", EmptyMapping), "email", EmptyString),
                               firstName |-> JGet(JGet(metadata, "from", EmptyMapping), "firstName", EmptyString),
                               lastName |-> JGet(JGet(metadata, "from", EmptyMapping), "lastName", EmptyString)],
                     to |-> recipients("to"),
                     cc |-> recipients("cc"),
                     bcc |-> recipients("bcc"),
                     sender |-> [email |-> JGet(JGet(metadata, "sender", EmptyMapping), "email", EmptyString)],
                     body |-> PyOr(JGet(metadata, "text", EmptyString), JGet(metadata, "html", EmptyString))])
                @@ formatted_engagement
          [] type = TypeOf("TASK") ->
                ("content" :>
                    [subject |-> JGet(metadata, "subject", EmptyString),
                     body |-> JGet(metadata, "body", EmptyString),
                     status |-> JGet(metadata, "status", EmptyString),
                     for_object_type |-> JGet(metadata, "forObjectType", EmptyString)])
                @@ formatted_engagement
          [] type = TypeOf("MEETING") ->
                ("content" :>
                    [title |-> JGet(metadata, "title", EmptyString),
                     body |-> JGet(metadata, "body", EmptyString),
                     start_time |-> JGet(metadata, "startTime", None),
                     end_time |-> JGet(metadata, "endTime", None),
                     internal_notes |-> JGet(metadata, "internalMeetingNotes", EmptyString)])
                @@ formatted_engagement
          [] type = TypeOf("CALL") ->
                ("content" :>
                    [body |-> JGet(metadata, "body", EmptyString),
                     from_number |-> JGet(metadata, "fromNumber", EmptyString),
                     to_number |-> JGet(metadata, "toNumber", EmptyString),
                     duration_ms |-> JGet(metadata, "durationMilliseconds", None),
                     status |-> JGet(metadata, "status", EmptyString),
                     disposition |-> JGet(metadata, "disposition", EmptyString)])
                @@ formatted_engagement
          [] OTHER -> formatted_engagement

FormatRecent_NoContent(engagement_response) ==
    [k \in DOMAIN FormatActivity(engagement_response) \ {"content"} |->
        FormatActivity(engagement_response)[k]]

\* lines 251-323 (get_recent_engagements): one raw engagement record to its formatted record
FormatRecent(engagement_response) ==
    LET engagement_data == JGet(engagement_response, "engagement", EmptyMapping)
        metadata == JGet(engagement_response, "metadata", EmptyMapping)
        type == JGet(engagement_data, "type", None)
        formatted_engagement ==
            [id |-> JGet(engagement_data, "id", None),
             type |-> JGet(engagement_data, "type", None),
             created_at |-> JGet(engagement_data, "createdAt", None),
             last_updated |-> JGet(engagement_data, "lastUpdated", None),
             created_by |-> JGet(engagement_data, "createdBy", None),
             modified_by |-> JGet(engagement_data, "modifiedBy", None),
             timestamp |-> JGet(engagement_data, "timestamp", None),
             associations |-> JGet(engagement_response, "associations", EmptyMapping)]
        recipients(key) ==
            LET list == JGet(metadata, key, EmptyList)
            IN  [i \in 1..Len(list) |->
                    [raw |-> JGet(list[i], "raw", EmptyString),
                     email |-> JGet(list[i], "email", EmptyString),
                     firstName |-> JGet(list[i], "firstName", EmptyString),
                     lastName |-> JGet(list[i], "lastName", EmptyString)]]
    IN  CASE type = TypeOf("NOTE") ->
                ("content" :> JGet(metadata, "body", EmptyString)) @@ formatted_engagement
          [] type = TypeOf("EMAIL") ->
                ("content" :>
                    [subject |-> JGet(metadata, "subject", EmptyString),
                     from |-> [raw |-> JGet(JGet(metadata, "from", EmptyMapping), "raw", EmptyString),
                               email |-> JGet(JGet(metadata, "from", EmptyMapping), "email", EmptyString),
                               firstName |-> JGet(JGet(metadata, "from", EmptyMapping), "firstName", EmptyString),
                               lastName |-> JGet(JGet(metadata, "from", EmptyMapping), "lastName", EmptyString)],
                     to |-> recipients("to"),
                     cc |-> recipients("cc"),
                     bcc |-> recipients("bcc"),
                     sender |-> [email |-> JGet(JGet(metadata, "sender", EmptyMapping), "email", EmptyString)],
                     body |-> PyOr(JGet(metadata, "text", EmptyString), JGet(metadata, "html", EmptyString))])
                @@ formatted_engagement
          [] type = TypeOf("TASK") ->
                ("content" :>
                    [subject |-> JGet(metadata, "subject", EmptyString),
                     body |-> JGet(metadata, "body", EmptyString),
                     status |-> JGet(metadata, "status", EmptyString),
                     for_object_type |-> JGet(metadata, "forObjectType", EmptyString)])
                @@ formatted_engagement
          [] type = TypeOf("MEETING") ->
                ("content" :>
                    [title |-> JGet(metadata, "title", EmptyString),
                     body |-> JGet(metadata, "body", EmptyString),
                     start_time |-> JGet(metadata, "startTime", None),
                     end_time |-> JGet(metadata, "endTime", None),
                     internal_notes |-> JGet(metadata, "internalMeetingNotes", EmptyString)])
                @@ formatted_engagement
          [] type = TypeOf("CALL") ->
                ("content" :>
                    [body |-> JGet(metadata, "body", EmptyString),
                     from_number |-> JGet(metadata, "fromNumber", EmptyString),
                     to_number |-> JGet(metadata, "toNumber", EmptyString),
                     duration_ms |-> JGet(metadata, "durationMilliseconds", None),
                     status |-> JGet(metadata, "status", EmptyString),
                     disposition |-> JGet(metadata, "disposition", EmptyString)])
                @@ formatted_engagement
          [] OTHER -> formatted_engagement

-----------------------------------------------------------------------------
(* The upstream platform: what its calls can do and the data it holds *)

\* one upstream call: the place in the code that issued it, the capability
\* called, the parameters sent and how the call ended
Call(site, api, params, outcome) ==
    [site |-> site, api |-> api, params |-> params, outcome |-> outcome, total |-> -1]

\* a search call, with the total of the response it returned
SearchCall(site, api, params, outcome, total) ==
    [site |-> site, api |-> api, params |-> params, outcome |-> outcome,
     total |-> IF outcome = "ok" THEN total ELSE -1]

\* an upstream call returns ("ok") or raises one of these classes
Outcomes(api) ==
    CASE api \in {"contacts.search_api.do_search", "contacts.basic_api.create"} ->
            {"ok", ContactsApiException, TransportError}
      [] api \in {"companies.search_api.do_search", "companies.basic_api.create"} ->
            {"ok", CompaniesApiException, TransportError}
      [] api = "associations.v4.basic_api.get_page" ->
            {"ok", AssociationsApiException, TransportError}
      [] OTHER -> {"ok", TransportError}

UpstreamExc(api, type) == Exc(type, <<api, " failed">>)

\* an upstream CRM object: its id, its properties and when it was last modified
Object(id, properties, updated_at) ==
    [id |-> id, properties |-> properties, updated_at |-> updated_at]

\* the objects of a store that satisfy every EQ filter, oldest first
RECURSIVE Matching(_, _)
Matching(store, filters) ==
    IF store = <<>> THEN <<>>
    ELSE LET o == Head(store)
             hit == \A k \in DOMAIN filters :
                        k \in DOMAIN o.properties /\ o.properties[k] = filters[k]
         IN  (IF hit THEN <<o>> ELSE <<>>) \o Matching(Tail(store), filters)

\* search(filter_groups) -> {results[], total}
SearchResponse(store, filters) ==
    [total |-> Len(Matching(store, filters)), results |-> Matching(store, filters)]

\* create(properties) -> the created object
Created(store, properties) == Object(Len(store) + 1, properties, Len(store) + 1)

RECURSIVE Reverse(_)
Reverse(seq) == IF seq = <<>> THEN <<>> ELSE Reverse(Tail(seq)) \o <<Head(seq)>>

Take(seq, n) == SubSeq(seq, 1, IF n < Len(seq) THEN n ELSE Len(seq))

\* search(sorts = lastmodifieddate DESCENDING, limit): newest first
RecentResponse(store, limit) == [results |-> Take(Reverse(store), limit)]

\* engagement ids associated with a company (one page)
UpAssociations(company_id) ==
    IF company_id = StrV(<<"c1">>) THEN <<"e1", "e2">>
    ELSE IF company_id = StrV(<<"c2">>) THEN <<"e3">>
    ELSE <<>>

\* GET /engagements/v1/engagements/{id}
UpEngagement(id) ==
    CASE id = "e1" ->
            [engagement |-> [id |-> ScInt(1), type |-> TypeOf("NOTE"), createdAt |-> ScInt(100)],
             metadata |-> [body |-> ScStr(<<"note body">>)],
             associations |-> [companyIds |-> ScInt(1)]]
      [] id = "e2" ->
            [engagement |-> [id |-> ScInt(2), type |-> TypeOf("EMAIL")],
             metadata |-> [subject |-> ScStr(<<"hello">>), html |-> ScStr(<<"<p>hi</p>">>),
                           to |-> <<[email |-> ScStr(<<"a@x">>)]>>]]
      [] id = "e3" ->
            [engagement |-> [id |-> ScInt(3), type |-> TypeOf("MEETING")],
             metadata |-> [title |-> ScStr(<<"sync">>), endTime |-> ScInt(200)]]
      [] OTHER -> [engagement |-> [id |-> ScInt(4), type |-> TypeOf("CALL")]]

\* GET /engagements/v1/engagements/recent/modified
UpRecentEngagements(limit) ==
    [results |-> Take(<<UpEngagement("e3"), UpEngagement("e2"), UpEngagement("e1")>>, limit)]

\* GET /conversations/v3/conversations/inboxes
UpInboxes(limit) ==
    [results |-> Take(<< [id |-> ScStr(<<"i1">>), name |-> ScStr(<<"Support">>), type |-> ScStr(<<"INBOX">>)],
                        [id |-> ScStr(<<"i2">>), name |-> ScStr(<<"Sales">>), archived |-> Sc("bool", 0, <<>>)] >>,
                     limit)]

\* GET /conversations/v3/conversations/channel-accounts?inboxId=
UpChannels(inboxId) ==
    IF inboxId = ScStr(<<"i1">>)
    THEN [results |-> << [id |-> ScStr(<<"ch1">>), name |-> ScStr(<<"mail">>), inboxId |-> inboxId],
                         [id |-> ScStr(<<"ch2">>), active |-> Sc("bool", 1, <<>>)] >>]
    ELSE [results |-> << [id |-> ScStr(<<"ch3">>), channelId |-> ScInt(1002)] >>]

\* GET /conversations/v3/conversations?inboxId=&limit=
UpConversations(inboxId, limit) ==
    IF inboxId = ScStr(<<"i1">>)
    THEN [results |-> Take(<< [id |-> ScStr(<<"t1">>), status |-> ScStr(<<"OPEN">>), subject |-> ScStr(<<"help">>),
                               associatedObjects |-> [contacts |-> <<[id |-> ScInt(7), type |-> ScStr(<<"CONTACT">>)]>>]],
                              [id |-> ScStr(<<"t2">>), status |-> ScStr(<<"CLOSED">>)] >>,
                           limit)]
    ELSE [results |-> Take(<< [id |-> ScStr(<<"t3">>), associatedObjects |-> [companies |-> <<[id |-> ScInt(9)]>>]] >>,
                           limit)]

\* GET /conversations/v3/conversations/{id}/messages
UpMessages(conversationId) ==
    IF conversationId = ScStr(<<"t1">>)
    THEN [results |-> << [id |-> ScStr(<<"m1">>), text |-> ScStr(<<"hi">>), sender |-> [id |-> ScInt(7), email |-> ScStr(<<"a@x">>)]],
                         [id |-> ScStr(<<"m2">>), recipient |-> [id |-> ScInt(8)]] >>]
    ELSE IF conversationId = ScStr(<<"t2">>)
    THEN [results |-> << [id |-> ScStr(<<"m3">>), type |-> ScStr(<<"MESSAGE">>)] >>]
    ELSE [results |-> << >>]

\* GET /conversations/v3/conversations/channel-accounts
UpChannelAccounts ==
    [results |-> UpChannels(ScStr(<<"i1">>)).results \o UpChannels(ScStr(<<"i2">>)).results]

-----------------------------------------------------------------------------
(* Normalization of search results (convert_datetime_fields on to_dict()) *)

Datetime(t) == Sc("datetime", t, <<>>)

\* datetime.isoformat() of the model's instants 0..9
IsoFormat(t) == <<"1970-01-01T00:00:0", Digits[t + 1]>>

ConvertLeaf_KeepTz(v) == IF v.t = "datetime" THEN ScStr(IsoFormat(v.n)) ELSE v

\* lines 18-24 on one leaf: a datetime becomes its ISO-8601 string, a tzlocal
\* the string "UTC" + offset[:3] + ":" + offset[3:]; anything else is kept
ConvertLeaf(v) ==
    CASE v.t = "datetime" -> ScStr(IsoFormat(v.n))
      [] v.t = "tzlocal" -> ScStr(<<"UTC", "+00", ":", "00">>)
      [] OTHER -> v

\* a dateutil tzlocal object
Tzlocal == Sc("tzlocal", 0, <<>>)

\* a dict and a list of a tree of Python values
TDict(d) == [t |-> "dict", d |-> d]

TList(items) == [t |-> "list", items |-> items]

\* lines 12-24: dicts and lists are rebuilt with every value converted, a
\* datetime or tzlocal leaf becomes a string, anything else is returned as is
RECURSIVE convert_datetime_fields(_)
convert_datetime_fields(obj) ==
    CASE obj.t = "dict" -> TDict([k \in DOMAIN obj.d |-> convert_datetime_fields(obj.d[k])])
      [] obj.t = "list" -> TList([i \in 1..Len(obj.items) |-> convert_datetime_fields(obj.items[i])])
      [] OTHER -> ConvertLeaf(obj)

\* SimplePublicObject.to_dict()
ToDict(o) ==
    [id |-> ScInt(o.id), properties |-> o.properties,
     created_at |-> Datetime(o.id), updated_at |-> Datetime(o.updated_at),
     archived |-> Sc("bool", 0, <<>>)]

\* lines 14-17 on the list of dictionaries of lines 60 and 96
ConvertObjects(dicts) ==
    [i \in 1..Len(dicts) |->
        [id |-> ConvertLeaf(dicts[i].id),
         properties |-> [k \in DOMAIN dicts[i].properties |-> ConvertLeaf(dicts[i].properties[k])],
         created_at |-> ConvertLeaf(dicts[i].created_at),
         updated_at |-> ConvertLeaf(dicts[i].updated_at),
         archived |-> ConvertLeaf(dicts[i].archived)]]

-----------------------------------------------------------------------------
(* HubSpotClient: one operation in progress *)

OpReturn(payload) == [raised |-> FALSE, exc |-> NoExc, payload |-> payload]

OpRaise(e) == [raised |-> TRUE, exc |-> e, payload |-> NoPayload]

NoOpReturn == OpReturn(NoPayload)

OpExcept_ApiOnly(e) ==
    IF IsApiException(e) THEN OpReturn(ErrorPayload(e)) ELSE OpRaise(e)

\* the two except clauses that close the try of every HubSpotClient method
OpExcept(e) ==
    IF IsApiException(e) THEN OpReturn(ErrorPayload(e))
    ELSE IF IsException(e) THEN OpReturn(ErrorPayload(e))
    ELSE OpRaise(e)

AIdle ==
    [pc |-> "idle", op |-> "", params |-> NoProps, todo |-> <<>>, acc |-> <<>>,
     cur |-> NoProps, ctodo |-> <<>>, cacc |-> <<>>, ret |-> NoOpReturn]

\* the first upstream call of each method
FirstSite(op) ==
    CASE op = "get_recent_companies" -> "companies.search"
      [] op = "get_recent_contacts" -> "contacts.search"
      [] op = "get_company_activity" -> "associations"
      [] op = "get_recent_engagements" -> "recent"
      [] op = "get_recent_conversations" -> "inboxes"
      [] op = "get_channel_accounts" -> "channel-accounts"

\* a method is entered with its parameters bound
Started(op, params) == [AIdle EXCEPT !.pc = FirstSite(op), !.op = op, !.params = params]

\* a method returns
Finished(st, ret) == [st EXCEPT !.pc = "returned", !.ret = ret]

-----------------------------------------------------------------------------
(* get_recent_conversations: the records it builds *)

\* lines 357-365
FormatInbox(inbox) ==
    [id |-> JGet(inbox, "id", None), type |-> JGet(inbox, "type", None),
     name |-> JGet(inbox, "name", None), created_at |-> JGet(inbox, "createdAt", None),
     updated_at |-> JGet(inbox, "updatedAt", None), archived |-> JGet(inbox, "archived", None),
     archived_at |-> JGet(inbox, "archivedAt", None)]

\* lines 378-392
FormatChannels(channels_response) ==
    LET results == JGet(channels_response, "results", EmptyList)
    IN  [i \in 1..Len(results) |->
            [id |-> JGet(results[i], "id", None), name |-> JGet(results[i], "name", None),
             channel_id |-> JGet(results[i], "channelId", None),
             inbox_id |-> JGet(results[i], "inboxId", None),
             created_at |-> JGet(results[i], "createdAt", None),
             archived_at |-> JGet(results[i], "archivedAt", None),
             archived |-> JGet(results[i], "archived", None),
             authorized |-> JGet(results[i], "authorized", None),
             active |-> JGet(results[i], "active", None),
             delivery_identifier |-> JGet(results[i], "deliveryIdentifier", None)]]

\* lines 421-428: the {id, type} of each associated object of one kind
Associated(conversation, kind) ==
    LET list == JGet(JGet(conversation, "associatedObjects", EmptyMapping), kind, EmptyList)
    IN  [i \in 1..Len(list) |-> [id |-> JGet(list[i], "id", None), type |-> JGet(list[i], "type", None)]]

\* lines 414-429
FormatConversation(conversation) ==
    [id |-> JGet(conversation, "id", None), type |-> JGet(conversation, "type", None),
     status |-> JGet(conversation, "status", None),
     created_time |-> JGet(conversation, "createdTime", None),
     last_updated_time |-> JGet(conversation, "updatedTime", None),
     subject |-> JGet(conversation, "subject", EmptyString),
     associated_contacts |-> Associated(conversation, "contacts"),
     associated_companies |-> Associated(conversation, "companies")]

\* lines 438-456
FormatMessages(messages_response) ==
    LET results == JGet(messages_response, "results", EmptyList)
    IN  [i \in 1..Len(results) |->
            [id |-> JGet(results[i], "id", None), type |-> JGet(results[i], "type", None),
             status |-> JGet(results[i], "status", None),
             created_time |-> JGet(results[i], "createdTime", None),
             text |-> JGet(results[i], "text", EmptyString),
             sender |-> [id |-> JGet(JGet(results[i], "sender", EmptyMapping), "id", None),
                         type |-> JGet(JGet(results[i], "sender", EmptyMapping), "type", None),
                         email |-> JGet(JGet(results[i], "sender", EmptyMapping), "email", None)],
             recipient |-> [id |-> JGet(JGet(results[i], "recipient", EmptyMapping), "id", None),
                            type |-> JGet(JGet(results[i], "recipient", EmptyMapping), "type", None)]]]

-----------------------------------------------------------------------------
(* HubSpotClient: the upstream calls of each method, one action per call *)

DayMs == 86400000

\* the local time zone of the process: its UTC offset (ms) before and from
\* the instant `start` on.  datetime.now() is naive local time, so the zone
\* is whatever the environment of the process sets
Zone(start, before, after) == [start |-> start, before |-> before, after |-> after]

\* no daylight saving; daylight saving beginning, and ending, three days ago
Zones ==
    { Zone(0, 0, 0),
      Zone(1740800000, 0, DayMs \div 24),
      Zone(1740800000, DayMs \div 24, 0) }

UtcOffset(tz, t) == IF t >= tz.start THEN tz.after ELSE tz.before

\* datetime.timestamp() of a naive local time: the instant whose local time it is
ToEpoch(tz, local) ==
    IF local - tz.after >= tz.start THEN local - tz.after ELSE local - tz.before

\* lines 229-233: start_time = datetime.now() - timedelta(days) is computed on
\* the naive local time, then converted to epoch milliseconds
StartTimestamp(tz, t, days) == ToEpoch(tz, (t + UtcOffset(tz, t)) - days * DayMs)

Limit_Counted(st) == st.params["limit"].n + served

Limit(st) == st.params["limit"].n

\* the formatted inbox is complete: append it and go on to the next inbox,
\* or return the encoded list (lines 470-474)
InboxDone(st) ==
    LET acc == Append(st.acc, st.cur)
        todo == Tail(st.todo)
    IN  IF todo = <<>>
        THEN Finished([st EXCEPT !.acc = acc, !.todo = todo, !.cur = NoProps,
                                 !.ctodo = <<>>, !.cacc = <<>>],
                      OpReturn(DataPayload(acc)))
        ELSE [st EXCEPT !.acc = acc, !.todo = todo, !.cur = FormatInbox(Head(todo)),
                        !.ctodo = <<>>, !.cacc = <<>>, !.pc = "channels"]

\* as CompaniesSearch, asking for the oldest first
CompaniesSearch_Ascending(outcome) ==
    /\ a.pc = "companies.search"
    /\ calls' = Append(calls, Call("companies.search", "companies.search_api.do_search",
                                   [sorts |-> <<[propertyName |-> "lastmodifieddate", direction |-> "ASCENDING"]>>,
                                    limit |-> Limit(a),
                                    properties |-> <<"name", "domain", "website", "phone", "industry", "hs_lastmodifieddate">>],
                                   outcome))
    /\ a' = IF outcome = "ok"
            THEN LET results == Take(companies, Limit(a))
                     companies_dict == [i \in 1..Len(results) |-> ToDict(results[i])]
                 IN  Finished(a, OpReturn(DataPayload(ConvertObjects(companies_dict))))
            ELSE Finished(a, OpExcept(UpstreamExc("companies.search_api.do_search", outcome)))
    /\ UNCHANGED <<contacts, companies, g, now, served, prev, input, output, zone, peer>>

\* get_recent_companies, lines 41-69
CompaniesSearch(outcome) ==
    /\ a.pc = "companies.search"
    /\ calls' = Append(calls, Call("companies.search", "companies.search_api.do_search",
                                   [sorts |-> <<[propertyName |-> "lastmodifieddate", direction |-> "DESCENDING"]>>,
                                    limit |-> Limit(a),
                                    properties |-> <<"name", "domain", "website", "phone", "industry", "hs_lastmodifieddate">>],
                                   outcome))
    /\ a' = IF outcome = "ok"
            THEN LET results == RecentResponse(companies, Limit(a)).results
                     companies_dict == [i \in 1..Len(results) |-> ToDict(results[i])]
                 IN  Finished(a, OpReturn(DataPayload(ConvertObjects(companies_dict))))
            ELSE Finished(a, OpExcept(UpstreamExc("companies.search_api.do_search", outcome)))
    /\ UNCHANGED <<contacts, companies, g, now, served, prev, input, output, zone, peer>>

\* get_recent_contacts, lines 77-105
ContactsSearch(outcome) ==
    /\ a.pc = "contacts.search"
    /\ calls' = Append(calls, Call("contacts.search", "contacts.search_api.do_search",
                                   [sorts |-> <<[propertyName |-> "lastmodifieddate", direction |-> "DESCENDING"]>>,
                                    limit |-> Limit(a),
                                    properties |-> <<"firstname", "lastname", "email", "phone", "company", "hs_lastmodifieddate", "lastmodifieddate">>],
                                   outcome))
    /\ a' = IF outcome = "ok"
            THEN LET results == RecentResponse(contacts, Limit(a)).results
                     contacts_dict == [i \in 1..Len(results) |-> ToDict(results[i])]
                 IN  Finished(a, OpReturn(DataPayload(ConvertObjects(contacts_dict))))
            ELSE Finished(a, OpExcept(UpstreamExc("contacts.search_api.do_search", outcome)))
    /\ UNCHANGED <<contacts, companies, g, now, served, prev, input, output, zone, peer>>

\* get_company_activity, lines 111-122: the associations lookup
Associations(outcome) ==
    /\ a.pc = "associations"
    /\ calls' = Append(calls, Call("associations", "associations.v4.basic_api.get_page",
                                   [object_type |-> "companies", object_id |-> a.params["company_id"],
                                    to_object_type |-> "engagements", limit |-> 500],
                                   outcome))
    /\ a' = IF outcome = "ok"
            THEN LET engagement_ids == UpAssociations(a.params["company_id"])
                 IN  IF engagement_ids = <<>>
                     THEN Finished(a, OpReturn(DataPayload(<<>>)))
                     ELSE [a EXCEPT !.pc = "engagement", !.todo = engagement_ids]
            ELSE Finished(a, OpExcept(UpstreamExc("associations.v4.basic_api.get_page", outcome)))
    /\ UNCHANGED <<contacts, companies, g, now, served, prev, input, output, zone, peer>>

\* as EngagementDetail, returning the activities formatted so far when a fetch fails
EngagementDetail_Partial(outcome) ==
    /\ a.pc = "engagement"
    /\ calls' = Append(calls, Call("engagement", "api_request",
                                   [method |-> "GET", path |-> <<"/engagements/v1/engagements/", Head(a.todo)>>],
                                   outcome))
    /\ a' = IF outcome = "ok"
            THEN LET activities == Append(a.acc, FormatActivity(UpEngagement(Head(a.todo))))
                 IN  IF Tail(a.todo) = <<>>
                     THEN Finished([a EXCEPT !.acc = activities, !.todo = <<>>],
                                   OpReturn(DataPayload(activities)))
                     ELSE [a EXCEPT !.acc = activities, !.todo = Tail(a.todo)]
            ELSE Finished(a, OpReturn(DataPayload(a.acc)))
    /\ UNCHANGED <<contacts, companies, g, now, served, prev, input, output, zone, peer>>

\* as EngagementDetail, fetching the same engagement again when the fetch failed
EngagementDetail_Retry(outcome) ==
    /\ a.pc = "engagement"
    /\ calls' = Append(calls, Call("engagement", "api_request",
                                   [method |-> "GET", path |-> <<"/engagements/v1/engagements/", Head(a.todo)>>],
                                   outcome))
    /\ a' = IF outcome = "ok"
            THEN LET activities == Append(a.acc, FormatActivity(UpEngagement(Head(a.todo))))
                 IN  IF Tail(a.todo) = <<>>
                     THEN Finished([a EXCEPT !.acc = activities, !.todo = <<>>],
                                   OpReturn(DataPayload(activities)))
                     ELSE [a EXCEPT !.acc = activities, !.todo = Tail(a.todo)]
            ELSE a
    /\ UNCHANGED <<contacts, companies, g, now, served, prev, input, output, zone, peer>>

\* as EngagementDetail, taking the engagement ids from the last to the first
EngagementDetail_Reversed(outcome) ==
    /\ a.pc = "engagement"
    /\ calls' = Append(calls, Call("engagement", "api_request",
                                   [method |-> "GET", path |-> <<"/engagements/v1/engagements/", a.todo[Len(a.todo)]>>],
                                   outcome))
    /\ a' = IF outcome = "ok"
            THEN LET activities == Append(a.acc, FormatActivity(UpEngagement(a.todo[Len(a.todo)])))
                 IN  IF Len(a.todo) = 1
                     THEN Finished([a EXCEPT !.acc = activities, !.todo = <<>>],
                                   OpReturn(DataPayload(activities)))
                     ELSE [a EXCEPT !.acc = activities, !.todo = SubSeq(a.todo, 1, Len(a.todo) - 1)]
            ELSE Finished(a, OpExcept(UpstreamExc("api_request", outcome)))
    /\ UNCHANGED <<contacts, companies, g, now, served, prev, input, output, zone, peer>>

\* get_company_activity, lines 126-218: the detail fetch of one engagement
EngagementDetail(outcome) ==
    /\ a.pc = "engagement"
    /\ calls' = Append(calls, Call("engagement", "api_request",
                                   [method |-> "GET", path |-> <<"/engagements/v1/engagements/", Head(a.todo)>>],
                                   outcome))
    /\ a' = IF outcome = "ok"
            THEN LET activities == Append(a.acc, FormatActivity(UpEngagement(Head(a.todo))))
                 IN  IF Tail(a.todo) = <<>>
                     THEN Finished([a EXCEPT !.acc = activities, !.todo = <<>>],
                                   OpReturn(DataPayload(activities)))
                     ELSE [a EXCEPT !.acc = activities, !.todo = Tail(a.todo)]
            ELSE Finished(a, OpExcept(UpstreamExc("api_request", outcome)))
    /\ UNCHANGED <<contacts, companies, g, now, served, prev, input, output, zone, peer>>

\* get_recent_engagements, lines 227-336
RecentEngagements(outcome) ==
    /\ a.pc = "recent"
    /\ calls' = Append(calls, Call("recent", "api_request",
                                   [method |-> "GET", path |-> <<"/engagements/v1/engagements/recent/modified">>,
                                    params |-> [count |-> Limit(a),
                                                since |-> StartTimestamp(zone, now, a.params["days"].n),
                                                offset |-> 0]],
                                   outcome))
    /\ a' = IF outcome = "ok"
            THEN LET results == JGet(UpRecentEngagements(Limit(a)), "results", EmptyList)
                 IN  Finished(a, OpReturn(DataPayload([i \in 1..Len(results) |-> FormatRecent(results[i])])))
            ELSE Finished(a, OpExcept(UpstreamExc("api_request", outcome)))
    /\ UNCHANGED <<contacts, companies, g, now, served, prev, input, output, zone, peer>>

\* get_recent_conversations, lines 346-356: the inboxes fetch
Inboxes(outcome) ==
    /\ a.pc = "inboxes"
    /\ calls' = Append(calls, Call("inboxes", "api_request",
                                   [method |-> "GET", path |-> <<"/conversations/v3/conversations/inboxes">>,
                                    params |-> [limit |-> Limit(a)]],
                                   outcome))
    /\ a' = IF outcome = "ok"
            THEN LET results == JGet(UpInboxes(Limit(a)), "results", EmptyList)
                 IN  IF results = <<>>
                     THEN Finished(a, OpReturn(DataPayload(<<>>)))
                     ELSE [a EXCEPT !.pc = "channels", !.todo = results,
                                    !.cur = FormatInbox(Head(results))]
            ELSE Finished(a, OpExcept(UpstreamExc("api_request", outcome)))
    /\ UNCHANGED <<contacts, companies, g, now, served, prev, input, output, zone, peer>>

\* as Channels, passing the limit on to the channels fetch
Channels_Limited(outcome) ==
    /\ a.pc = "channels"
    /\ LET inboxId == JGet(Head(a.todo), "id", None)
       IN  /\ calls' = Append(calls, Call("channels", "api_request",
                                          [method |-> "GET", path |-> <<"/conversations/v3/conversations/channel-accounts">>,
                                           params |-> [inboxId |-> inboxId, limit |-> Limit(a)]],
                                          outcome))
           /\ a' = [a EXCEPT !.pc = "conversations",
                             !.cur = ("channels" :> (IF outcome = "ok"
                                                     THEN FormatChannels(UpChannels(inboxId))
                                                     ELSE <<>>)) @@ a.cur]
    /\ UNCHANGED <<contacts, companies, g, now, served, prev, input, output, zone, peer>>

\* get_recent_conversations, lines 368-397: the channels of one inbox
Channels(outcome) ==
    /\ a.pc = "channels"
    /\ LET inboxId == JGet(Head(a.todo), "id", None)
       IN  /\ calls' = Append(calls, Call("channels", "api_request",
                                          [method |-> "GET", path |-> <<"/conversations/v3/conversations/channel-accounts">>,
                                           params |-> [inboxId |-> inboxId]],
                                          outcome))
           /\ a' = [a EXCEPT !.pc = "conversations",
                             !.cur = ("channels" :> (IF outcome = "ok"
                                                     THEN FormatChannels(UpChannels(inboxId))
                                                     ELSE <<>>)) @@ a.cur]
    /\ UNCHANGED <<contacts, companies, g, now, served, prev, input, output, zone, peer>>

Conversations_ClearsChannels(outcome) ==
    /\ a.pc = "conversations"
    /\ LET inboxId == JGet(Head(a.todo), "id", None)
           results == JGet(UpConversations(inboxId, Limit(a)), "results", EmptyList)
       IN  /\ calls' = Append(calls, Call("conversations", "api_request",
                                          [method |-> "GET", path |-> <<"/conversations/v3/conversations">>,
                                           params |-> [inboxId |-> inboxId, limit |-> Limit(a)]],
                                          outcome))
           /\ a' = IF outcome = "ok" /\ results # <<>>
                   THEN [a EXCEPT !.pc = "messages", !.ctodo = results, !.cacc = <<>>]
                   ELSE InboxDone([a EXCEPT !.cur = ("conversations" :> <<>>) @@ ("channels" :> <<>>) @@ a.cur])
    /\ UNCHANGED <<contacts, companies, g, now, served, prev, input, output, zone, peer>>

\* get_recent_conversations, lines 400-412 and 465-470: the conversations of one inbox
Conversations(outcome) ==
    /\ a.pc = "conversations"
    /\ LET inboxId == JGet(Head(a.todo), "id", None)
           results == JGet(UpConversations(inboxId, Limit(a)), "results", EmptyList)
       IN  /\ calls' = Append(calls, Call("conversations", "api_request",
                                          [method |-> "GET", path |-> <<"/conversations/v3/conversations">>,
                                           params |-> [inboxId |-> inboxId, limit |-> Limit(a)]],
                                          outcome))
           /\ a' = IF outcome = "ok" /\ results # <<>>
                   THEN [a EXCEPT !.pc = "messages", !.ctodo = results, !.cacc = <<>>]
                   ELSE InboxDone([a EXCEPT !.cur = ("conversations" :> <<>>) @@ a.cur])
    /\ UNCHANGED <<contacts, companies, g, now, served, prev, input, output, zone, peer>>

\* as Messages, taking the conversations of an inbox from the last to the first
Messages_LastFirst(outcome) ==
    /\ a.pc = "messages"
    /\ LET conversation == a.ctodo[Len(a.ctodo)]
           formatted_convo ==
               ("messages" :> (IF outcome = "ok"
                               THEN FormatMessages(UpMessages(JGet(conversation, "id", None)))
                               ELSE <<>>)) @@ FormatConversation(conversation)
           conversations == Append(a.cacc, formatted_convo)
       IN  /\ calls' = Append(calls, Call("messages", "api_request",
                                          [method |-> "GET",
                                           path |-> <<"/conversations/v3/conversations/", JGet(conversation, "id", None), "/messages">>],
                                          outcome))
           /\ a' = IF Len(a.ctodo) = 1
                   THEN InboxDone([a EXCEPT !.cur = ("conversations" :> conversations) @@ a.cur])
                   ELSE [a EXCEPT !.ctodo = SubSeq(a.ctodo, 1, Len(a.ctodo) - 1), !.cacc = conversations]
    /\ UNCHANGED <<contacts, companies, g, now, served, prev, input, output, zone, peer>>

\* get_recent_conversations, lines 414-470: the messages of one conversation
Messages(outcome) ==
    /\ a.pc = "messages"
    /\ LET conversation == Head(a.ctodo)
           formatted_convo ==
               ("messages" :> (IF outcome = "ok"
                               THEN FormatMessages(UpMessages(JGet(conversation, "id", None)))
                               ELSE <<>>)) @@ FormatConversation(conversation)
           conversations == Append(a.cacc, formatted_convo)
       IN  /\ calls' = Append(calls, Call("messages", "api_request",
                                          [method |-> "GET",
                                           path |-> <<"/conversations/v3/conversations/", JGet(conversation, "id", None), "/messages">>],
                                          outcome))
           /\ a' = IF Tail(a.ctodo) = <<>>
                   THEN InboxDone([a EXCEPT !.cur = ("conversations" :> conversations) @@ a.cur])
                   ELSE [a EXCEPT !.ctodo = Tail(a.ctodo), !.cacc = conversations]
    /\ UNCHANGED <<contacts, companies, g, now, served, prev, input, output, zone, peer>>

\* get_channel_accounts, lines 489-505
ChannelAccounts(outcome) ==
    /\ a.pc = "channel-accounts"
    /\ calls' = Append(calls, Call("channel-accounts", "api_request",
                                   [method |-> "GET", path |-> <<"/conversations/v3/conversations/channel-accounts">>],
                                   outcome))
    /\ a' = IF outcome = "ok"
            THEN Finished(a, OpReturn(DataPayload(JGet(UpChannelAccounts, "results", EmptyList))))
            ELSE Finished(a, OpExcept(UpstreamExc("api_request", outcome)))
    /\ UNCHANGED <<contacts, companies, g, now, served, prev, input, output, zone, peer>>

\* one upstream call of a method the gateway calls returns or raises
AccessStep ==
    \/ \E outcome \in Outcomes("companies.search_api.do_search") : CompaniesSearch(outcome)
    \/ \E outcome \in Outcomes("contacts.search_api.do_search") : ContactsSearch(outcome)
    \/ \E outcome \in Outcomes("associations.v4.basic_api.get_page") : Associations(outcome)
    \/ \E outcome \in Outcomes("api_request") : EngagementDetail(outcome)
    \/ \E outcome \in Outcomes("api_request") : RecentEngagements(outcome)
    \/ \E outcome \in Outcomes("api_request") : Inboxes(outcome)
    \/ \E outcome \in Outcomes("api_request") : Channels(outcome)
    \/ \E outcome \in Outcomes("api_request") : Conversations(outcome)
    \/ \E outcome \in Outcomes("api_request") : Messages(outcome)

-----------------------------------------------------------------------------
(* handle_call_tool: one invocation in progress *)

GIdle ==
    [pc |-> "idle", name |-> "", arguments |-> NoArguments, filters |-> NoProps,
     properties |-> NoProps, ret |-> NoReturn]

\* the invocation of a second gateway process: as GIdle, with its own trace
\* of upstream calls and the count of invocations it has received
PeerIdle ==
    [pc |-> "idle", name |-> "", arguments |-> NoArguments, filters |-> NoProps,
     properties |-> NoProps, ret |-> NoReturn, calls |-> <<>>, served |-> 0]

\* the handler returns (or lets an exception out)
Responded(st, ret) == [st EXCEPT !.pc = "done", !.ret = ret]

\* `return [types.TextContent(type="text", text=...)]`
ReturnText(st, text) == Responded(st, Returned(<<TextContent(text)>>))

\* lines 199-462 up to the first upstream call: the branch of `name` raises
\* into the handler's except clauses, issues its idempotency search, or
\* calls the HubSpotClient method it names
CallTool(name, arguments) ==
    /\ g.pc = "idle"
    /\ a.pc = "idle"
    /\ served < MaxCalls
    /\ served' = served + 1
    /\ calls' = <<>>
    /\ LET e == Dispatch(name, arguments)
           st == [GIdle EXCEPT !.name = name, !.arguments = arguments]
       IN  CASE e.kind = "raise" ->
                    /\ g' = Responded(st, TopLevelExcept(e.exc))
                    /\ a' = a
             [] e.kind = "search" ->
                    /\ g' = [st EXCEPT !.pc = e.api, !.filters = e.filters]
                    /\ a' = a
             [] e.kind = "delegate" /\ e.op \in HubSpotClientMethods ->
                    /\ g' = [st EXCEPT !.pc = "delegated"]
                    /\ a' = Started(e.op, e.params)
             [] e.kind = "delegate" /\ e.op \notin HubSpotClientMethods ->
                    /\ g' = Responded(st, TopLevelExcept(
                                AttributeError(<<"'HubSpotClient' object has no attribute '", e.op, "'">>)))
                    /\ a' = a
    /\ UNCHANGED <<contacts, companies, now, prev, input, output, zone, peer>>

AlreadyExists_Never(search_response) == FALSE

\* lines 248 and 308: `if search_response.total > 0`
AlreadyExists(search_response) == search_response.total > 0

\* hubspot_create_contact, lines 244-267 and 279-280: the idempotency search
CreateContactSearch(outcome) ==
    /\ g.pc = "contacts"
    /\ calls' = Append(calls, SearchCall("contacts", "contacts.search_api.do_search",
                                         [filter_groups |-> <<[filters |-> g.filters]>>], outcome,
                                         SearchResponse(contacts, g.filters).total))
    /\ g' = IF outcome = "ok"
            THEN LET search_response == SearchResponse(contacts, g.filters)
                     properties == ContactProperties(g.arguments)
                 IN  IF AlreadyExists(search_response)
                     THEN ReturnText(g, Text("Contact already exists: ", <<>>,
                                             ToDict(search_response.results[1]), NoPayload))
                     ELSE IF properties.exc # NoExc
                     THEN Responded(g, CreateExcept(properties.exc))
                     ELSE [g EXCEPT !.pc = "contacts.create", !.properties = properties.d]
            ELSE Responded(g, CreateExcept(UpstreamExc("contacts.search_api.do_search", outcome)))
    /\ UNCHANGED <<contacts, companies, a, now, served, prev, input, output, zone, peer>>

\* hubspot_create_contact, lines 270-280: the create call
CreateContactCreate(outcome) ==
    /\ g.pc = "contacts.create"
    /\ calls' = Append(calls, Call("contacts.create", "contacts.basic_api.create",
                                   [properties |-> g.properties], outcome))
    /\ IF outcome = "ok"
       THEN /\ contacts' = Append(contacts, Created(contacts, g.properties))
            /\ g' = ReturnText(g, Text("", <<>>, ToDict(Created(contacts, g.properties)), NoPayload))
       ELSE /\ contacts' = contacts
            /\ g' = Responded(g, CreateExcept(UpstreamExc("contacts.basic_api.create", outcome)))
    /\ UNCHANGED <<companies, a, now, served, prev, input, output, zone, peer>>

\* hubspot_create_contact arriving at the second gateway process (lines 233-243)
PeerCallTool(arguments) ==
    /\ peer.pc = "idle"
    /\ peer.served < MaxCalls
    /\ LET e == Dispatch("hubspot_create_contact", arguments)
           st == [PeerIdle EXCEPT !.name = "hubspot_create_contact", !.arguments = arguments,
                                  !.served = peer.served + 1]
       IN  peer' = IF e.kind = "raise"
                   THEN Responded(st, TopLevelExcept(e.exc))
                   ELSE [st EXCEPT !.pc = e.api, !.filters = e.filters]
    /\ UNCHANGED <<contacts, companies, g, a, calls, now, served, prev, input, output, zone>>

\* lines 244-267 and 279-280 in the second process: the idempotency search
PeerSearch(outcome) ==
    /\ peer.pc = "contacts"
    /\ LET st == [peer EXCEPT !.calls = Append(peer.calls,
                       SearchCall("contacts", "contacts.search_api.do_search",
                                  [filter_groups |-> <<[filters |-> peer.filters]>>], outcome,
                                  SearchResponse(contacts, peer.filters).total))]
       IN  peer' = IF outcome = "ok"
                   THEN LET search_response == SearchResponse(contacts, peer.filters)
                            properties == ContactProperties(peer.arguments)
                        IN  IF AlreadyExists(search_response)
                            THEN ReturnText(st, Text("Contact already exists: ", <<>>,
                                                     ToDict(search_response.results[1]), NoPayload))
                            ELSE IF properties.exc # NoExc
                            THEN Responded(st, CreateExcept(properties.exc))
                            ELSE [st EXCEPT !.pc = "contacts.create", !.properties = properties.d]
                   ELSE Responded(st, CreateExcept(UpstreamExc("contacts.search_api.do_search", outcome)))
    /\ UNCHANGED <<contacts, companies, g, a, calls, now, served, prev, input, output, zone>>

\* lines 270-280 in the second process: the create call
PeerCreate(outcome) ==
    /\ peer.pc = "contacts.create"
    /\ LET st == [peer EXCEPT !.calls = Append(peer.calls,
                       Call("contacts.create", "contacts.basic_api.create",
                            [properties |-> peer.properties], outcome))]
       IN  IF outcome = "ok"
           THEN /\ contacts' = Append(contacts, Created(contacts, peer.properties))
                /\ peer' = ReturnText(st, Text("", <<>>, ToDict(Created(contacts, peer.properties)), NoPayload))
           ELSE /\ contacts' = contacts
                /\ peer' = Responded(st, CreateExcept(UpstreamExc("contacts.basic_api.create", outcome)))
    /\ UNCHANGED <<companies, g, a, calls, now, served, prev, input, output, zone>>

\* hubspot_create_company, lines 304-322 and 334-335: the idempotency search
CreateCompanySearch(outcome) ==
    /\ g.pc = "companies"
    /\ calls' = Append(calls, SearchCall("companies", "companies.search_api.do_search",
                                         [filter_groups |-> <<[filters |-> g.filters]>>], outcome,
                                         SearchResponse(companies, g.filters).total))
    /\ g' = IF outcome = "ok"
            THEN LET search_response == SearchResponse(companies, g.filters)
                     properties == CompanyProperties(g.arguments)
                 IN  IF AlreadyExists(search_response)
                     THEN ReturnText(g, Text("Company already exists: ", <<>>,
                                             ToDict(search_response.results[1]), NoPayload))
                     ELSE IF properties.exc # NoExc
                     THEN Responded(g, CreateExcept(properties.exc))
                     ELSE [g EXCEPT !.pc = "companies.create", !.properties = properties.d]
            ELSE Responded(g, CreateExcept(UpstreamExc("companies.search_api.do_search", outcome)))
    /\ UNCHANGED <<contacts, companies, a, now, served, prev, input, output, zone, peer>>

\* hubspot_create_company, lines 325-335: the create call
CreateCompanyCreate(outcome) ==
    /\ g.pc = "companies.create"
    /\ calls' = Append(calls, Call("companies.create", "companies.basic_api.create",
                                   [properties |-> g.properties], outcome))
    /\ IF outcome = "ok"
       THEN /\ companies' = Append(companies, Created(companies, g.properties))
            /\ g' = ReturnText(g, Text("", <<>>, ToDict(Created(companies, g.properties)), NoPayload))
       ELSE /\ companies' = companies
            /\ g' = Responded(g, CreateExcept(UpstreamExc("companies.basic_api.create", outcome)))
    /\ UNCHANGED <<contacts, a, now, served, prev, input, output, zone, peer>>

\* as Wrap, with the handler never resuming after the method has returned
Wrap_Waits ==
    /\ g.pc = "delegated"
    /\ a.pc = "returned"
    /\ UNCHANGED vars

\* lines 341, 354, 365, 376, 387: the method has returned and its payload is
\* wrapped; an exception it let out reaches the handler's except clauses
Wrap ==
    /\ g.pc = "delegated"
    /\ a.pc = "returned"
    /\ g' = IF a.ret.raised
            THEN Responded(g, TopLevelExcept(a.ret.exc))
            ELSE ReturnText(g, Text("", <<>>, NoProps, a.ret.payload))
    /\ UNCHANGED <<contacts, companies, a, calls, now, served, prev, input, output, zone, peer>>

\* the caller has the result; the invocation's objects are discarded
Respond ==
    /\ g.pc = "done"
    /\ g' = GIdle
    /\ a' = AIdle
    /\ calls' = <<>>
    /\ UNCHANGED <<contacts, companies, now, served, prev, input, output, zone, peer>>

\* the same step, with the completed invocation kept as history
RespondRecorded ==
    /\ g.pc = "done"
    /\ g' = GIdle
    /\ a' = AIdle
    /\ prev' = [name |-> g.name, arguments |-> g.arguments, ret |-> g.ret, calls |-> calls]
    /\ calls' = <<>>
    /\ UNCHANGED <<contacts, companies, now, served, input, output, zone, peer>>

\* a caller of HubSpotClient other than the gateway enters a method
Invoke(op, params) ==
    /\ g.pc = "idle"
    /\ a.pc = "idle"
    /\ served < MaxCalls
    /\ served' = served + 1
    /\ calls' = <<>>
    /\ a' = Started(op, params)
    /\ UNCHANGED <<contacts, companies, g, now, prev, input, output, zone, peer>>

\* and has its return value
Collect ==
    /\ g.pc = "idle"
    /\ a.pc = "returned"
    /\ a' = AIdle
    /\ calls' = <<>>
    /\ UNCHANGED <<contacts, companies, g, now, served, prev, input, output, zone, peer>>

-----------------------------------------------------------------------------
(* The inputs: tool names, argument bags, upstream states *)

A_ == StrV(<<"A", "d", "a">>)

B_ == StrV(<<"B", "o", "b">>)

L_ == StrV(<<"L", "e", "e">>)

Acme == ScStr(<<"A", "c", "m", "e">>)

Bag(m) == Arguments(FALSE, m)

EmptyBag == Arguments(FALSE, NoProps)

NamesAL == ("firstname" :> A_) @@ ("lastname" :> L_)

CreateContactBags ==
    { NoArguments, EmptyBag,
      Bag(NamesAL),
      Bag(("firstname" :> B_) @@ ("lastname" :> L_)),
      Bag(NamesAL @@ ("email" :> StrV(<<"a", "@", "x">>))),
      Bag(NamesAL @@ ("properties" :> DictV("company" :> Acme))),
      Bag(NamesAL @@ ("properties" :> DictV("company" :> ScStr(<<>>)))),
      Bag(NamesAL @@ ("properties" :> DictV("firstname" :> Scalar(B_)))),
      Bag(NamesAL @@ ("properties" :> DictV(NoProps)) @@ ("extra" :> IntV(1))),
      Bag(NamesAL @@ ("properties" :> StrV(<<"x">>))),
      Bag(NamesAL @@ ("properties" :> Null)),
      Bag(("firstname" :> IntV(5)) @@ ("lastname" :> L_)),
      Bag("firstname" :> A_),
      Bag("lastname" :> L_),
      Bag("email" :> StrV(<<"a", "@", "x">>)) }

CreateCompanyBags ==
    { NoArguments, EmptyBag,
      Bag("name" :> StrV(<<"X">>)),
      Bag("name" :> StrV(<<"Y">>)),
      Bag(("name" :> StrV(<<"X">>)) @@ ("properties" :> DictV("domain" :> ScStr(<<"x", ".", "io">>)))),
      Bag(("name" :> StrV(<<"X">>)) @@ ("properties" :> DictV("name" :> ScStr(<<"Y">>)))),
      Bag(("name" :> StrV(<<"X">>)) @@ ("properties" :> ListV(0))),
      Bag(("name" :> StrV(<<"X">>)) @@ ("properties" :> ListV(1))),
      Bag(("name" :> StrV(<<"X">>)) @@ ("properties" :> StrV(<<"x">>))),
      Bag(("name" :> IntV(5)) @@ ("extra" :> IntV(1))),
      Bag("properties" :> DictV("domain" :> ScStr(<<"x", ".", "io">>))) }

CompanyActivityBags ==
    { NoArguments, EmptyBag,
      Bag("company_id" :> StrV(<<"c1">>)),
      Bag("company_id" :> StrV(<<"c2">>)),
      Bag(("company_id" :> IntV(5)) @@ ("extra" :> IntV(1))),
      Bag("limit" :> IntV(1)) }

\* values offered for an integer parameter
IntLike ==
    { Null, IntV(0), IntV(1), IntV(3), IntV(-1), BoolV(TRUE), FloatV(25), FloatV(-15),
      StrV(<<"2">>), StrV(<<" ", "1", "2", " ">>), StrV(<<"-", "1">>),
      StrV(<<"a", "b", "c">>), StrV(<<"1", ".", "5">>), StrV(<<>>), ListV(1), DictV(NoProps) }

LimitBags ==
    { NoArguments, EmptyBag, Bag("extra" :> IntV(1)) } \cup { Bag("limit" :> v) : v \in IntLike }

ConversationsBags ==
    { NoArguments, EmptyBag, Bag("limit" :> Null), Bag("limit" :> IntV(1)),
      Bag("limit" :> StrV(<<"2">>)), Bag("limit" :> FloatV(-15)),
      Bag("limit" :> StrV(<<"a", "b", "c">>)), Bag("limit" :> ListV(1)) }

RecentEngagementsBags ==
    { NoArguments, EmptyBag, Bag("extra" :> IntV(1)) }
    \cup { Bag("days" :> v) : v \in {Null, IntV(0), IntV(3), StrV(<<"2">>), FloatV(15), StrV(<<"a", "b", "c">>), ListV(1)} }
    \cup { Bag("limit" :> v) : v \in {Null, IntV(2), StrV(<<" ", "1", "2", " ">>), StrV(<<>>), DictV(NoProps)} }
    \cup { Bag(("days" :> d) @@ ("limit" :> l)) :
             d \in {Null, IntV(1), StrV(<<"a", "b", "c">>)}, l \in {Null, BoolV(TRUE), StrV(<<"1", ".", "5">>)} }

IdBags(key) ==
    { NoArguments, EmptyBag,
      Bag(key :> StrV(<<"i1">>)),
      Bag((key :> IntV(5)) @@ ("extra" :> IntV(1))),
      Bag("limit" :> IntV(1)),
      Bag((key :> StrV(<<"i1">>)) @@ ("limit" :> Null)),
      Bag((key :> StrV(<<"i1">>)) @@ ("limit" :> StrV(<<"2">>))),
      Bag((key :> StrV(<<"i1">>)) @@ ("limit" :> StrV(<<"a", "b", "c">>))) }

UnknownNames == {"unknown_tool_xyz", "hubspot_get_contacts", ""}

ToolNames == CatalogNames \cup UnknownNames

\* the argument bags offered to a tool
ArgumentBags(name) ==
    CASE name = "hubspot_create_contact" -> CreateContactBags
      [] name = "hubspot_create_company" -> CreateCompanyBags
      [] name = "hubspot_get_company_activity" -> CompanyActivityBags
      [] name = "hubspot_get_recent_engagements" -> RecentEngagementsBags
      [] name \in {"hubspot_get_active_companies", "hubspot_get_active_contacts",
                   "hubspot_conversations_inboxes"} -> LimitBags
      [] name = "hubspot_conversations_recent" -> ConversationsBags
      [] name \in {"hubspot_conversations_channels_for_inbox",
                   "hubspot_conversations_threads_for_inbox"} -> IdBags("inbox_id")
      [] name = "hubspot_conversations_threads_for_channel" -> IdBags("channel_id")
      [] name \in {"hubspot_conversations_thread_messages",
                   "hubspot_conversations_thread_latest_message"} -> IdBags("thread_id")
      [] name = "hubspot_conversations_all_channels" -> { NoArguments, EmptyBag, Bag("extra" :> IntV(1)) }
      [] OTHER -> { NoArguments, EmptyBag, Bag("limit" :> IntV(1)), Bag(NamesAL) }

\* the parameters a direct caller passes to a HubSpotClient method
MethodParams(op) ==
    CASE op = "get_company_activity" ->
            { "company_id" :> c : c \in {StrV(<<"c1">>), StrV(<<"c2">>), StrV(<<"c9">>)} }
      [] op = "get_recent_engagements" ->
            { ("days" :> IntV(d)) @@ ("limit" :> IntV(l)) : d \in {0, 1, 7}, l \in {0, 2, 50} }
      [] op = "get_channel_accounts" -> { NoProps }
      [] OTHER -> { "limit" :> IntV(l) : l \in {0, 1, 2, 10} }

\* upstream states an invocation can start from
InitialContacts ==
    { <<>>,
      << Object(1, ("firstname" :> Scalar(A_)) @@ ("lastname" :> Scalar(L_)) @@ ("company" :> Acme), 1),
         Object(2, ("firstname" :> Scalar(B_)) @@ ("lastname" :> Scalar(L_)), 2) >> }

InitialCompanies ==
    { <<>>, << Object(1, "name" :> ScStr(<<"X">>), 1) >> }

\* instants of the clock, in epoch milliseconds
Clock == {2000000000}

NoPrev == [name |-> "", arguments |-> NoArguments, ret |-> NoReturn, calls |-> <<>>]

-----------------------------------------------------------------------------
(* Specifications *)

Init ==
    /\ contacts \in InitialContacts
    /\ companies \in InitialCompanies
    /\ g = GIdle
    /\ a = AIdle
    /\ calls = <<>>
    /\ now \in Clock
    /\ served = 0
    /\ prev = NoPrev
    /\ input = NoProps
    /\ output = NoProps
    /\ zone = Zone(0, 0, 0)
    /\ peer = PeerIdle

\* the gateway: invocations arrive one after the other
Next ==
    \/ \E name \in ToolNames : \E arguments \in ArgumentBags(name) : CallTool(name, arguments)
    \/ \E outcome \in Outcomes("contacts.search_api.do_search") : CreateContactSearch(outcome)
    \/ \E outcome \in Outcomes("contacts.basic_api.create") : CreateContactCreate(outcome)
    \/ \E outcome \in Outcomes("companies.search_api.do_search") : CreateCompanySearch(outcome)
    \/ \E outcome \in Outcomes("companies.basic_api.create") : CreateCompanyCreate(outcome)
    \/ AccessStep
    \/ Wrap
    \/ Respond

Spec == Init /\ [][Next]_vars

\* HubSpotClient called directly, one method call after the other
NextAccess ==
    \/ \E op \in HubSpotClientMethods : \E params \in MethodParams(op) : Invoke(op, params)
    \/ AccessStep
    \/ \E outcome \in Outcomes("api_request") : ChannelAccounts(outcome)
    \/ Collect

SpecAccess == Init /\ [][NextAccess]_vars

\* hubspot_create_contact invoked repeatedly, with the history kept
NextCreateContact ==
    \/ \E arguments \in CreateContactBags : CallTool("hubspot_create_contact", arguments)
    \/ \E outcome \in Outcomes("contacts.search_api.do_search") : CreateContactSearch(outcome)
    \/ \E outcome \in Outcomes("contacts.basic_api.create") : CreateContactCreate(outcome)
    \/ RespondRecorded

SpecCreateContact == Init /\ [][NextCreateContact]_vars

\* the metadata keys the formatting reads for each engagement type
MetadataFields(type) ==
    CASE type = "NOTE" -> {"body"}
      [] type = "EMAIL" -> {"subject", "from", "to", "cc", "bcc", "sender", "text", "html"}
      [] type = "TASK" -> {"subject", "body", "status", "forObjectType"}
      [] type = "MEETING" -> {"title", "body", "startTime", "endTime", "internalMeetingNotes"}
      [] type = "CALL" -> {"body", "fromNumber", "toNumber", "durationMilliseconds", "status", "disposition"}

\* a value upstream JSON holds under a metadata key that is present
MetaValue(key) ==
    CASE key \in {"startTime", "endTime", "durationMilliseconds"} -> ScInt(5)
      [] key \in {"from", "sender"} -> [email |-> ScStr(<<"a@x">>)]
      [] key \in {"to", "cc", "bcc"} -> <<[email |-> ScStr(<<"b@x">>)]>>
      [] key = "text" -> ScStr(<<"plain">>)
      [] key = "html" -> ScStr(<<"<p>">>)
      [] OTHER -> ScStr(<<"x">>)

\* a raw engagement record of the given type with the given metadata keys present
RawEngagement(type, present) ==
    [engagement |-> [id |-> ScInt(1), type |-> TypeOf(type)],
     metadata |-> [k \in present |-> MetaValue(k)]]

EngagementTypes == {"NOTE", "EMAIL", "TASK", "MEETING", "CALL"}

\* EMAIL records whose text / html are absent, empty, null or filled
EmailBodyRecords ==
    { [engagement |-> [id |-> ScInt(2), type |-> TypeOf("EMAIL")], metadata |-> text @@ html] :
        text \in { NoProps, "text" :> EmptyString, "text" :> None, "text" :> ScStr(<<"plain">>) },
        html \in { NoProps, "html" :> EmptyString, "html" :> ScStr(<<"<p>">>) } }

\* records of a type the formatting has no branch for, and records that
\* lack the engagement, type or metadata key
OtherRecords ==
    { RawEngagement("INCOMING_EMAIL", {"subject", "text"}),
      RawEngagement("note", {"body"}),
      [engagement |-> [id |-> ScInt(3)], metadata |-> [body |-> ScStr(<<"x">>)]],
      [metadata |-> [body |-> ScStr(<<"x">>)]],
      [engagement |-> [id |-> ScInt(4), type |-> TypeOf("NOTE")]],
      [engagement |-> [id |-> ScInt(5), type |-> TypeOf("EMAIL")],
       associations |-> [companyIds |-> ScInt(1)]],
      NoProps @@ [associations |-> [contactIds |-> ScInt(2)]] }

RawEngagements ==
    UNION { { RawEngagement(type, present) : present \in SUBSET MetadataFields(type) } :
            type \in EngagementTypes }
    \cup EmailBodyRecords
    \cup OtherRecords

InitFormat ==
    /\ contacts = <<>>
    /\ companies = <<>>
    /\ g = GIdle
    /\ a = AIdle
    /\ calls = <<>>
    /\ now \in Clock
    /\ served = 0
    /\ prev = NoPrev
    /\ input \in RawEngagements
    /\ output = NoProps
    /\ zone = Zone(0, 0, 0)
    /\ peer = PeerIdle

\* one raw engagement record goes through the formatting code of both methods
Format ==
    /\ input \in RawEngagements
    /\ output = NoProps
    /\ output' = [activity |-> FormatActivity(input), recent |-> FormatRecent(input)]
    /\ UNCHANGED <<contacts, companies, g, a, calls, now, served, prev, input, zone, peer>>

NextFormat == Format

SpecFormat == InitFormat /\ [][NextFormat]_vars

\* the invocations offered when the history of the last one is kept
HistoryNames ==
    {"hubspot_create_contact", "hubspot_get_active_contacts", "hubspot_get_recent_engagements",
     "hubspot_conversations_inboxes", "unknown_tool_xyz"}

HistoryBags(name) ==
    CASE name = "hubspot_create_contact" ->
            { Bag(NamesAL), Bag(NamesAL @@ ("properties" :> DictV("company" :> Acme))), Bag("firstname" :> A_) }
      [] name = "hubspot_get_active_contacts" -> { NoArguments, Bag("limit" :> IntV(1)) }
      [] name = "hubspot_get_recent_engagements" -> { EmptyBag, Bag("days" :> StrV(<<"2">>)) }
      [] OTHER -> { NoArguments, Bag("limit" :> IntV(1)) }

\* the gateway with the last completed invocation kept as history
NextHistory ==
    \/ \E name \in HistoryNames : \E arguments \in HistoryBags(name) : CallTool(name, arguments)
    \/ \E outcome \in Outcomes("contacts.search_api.do_search") : CreateContactSearch(outcome)
    \/ \E outcome \in Outcomes("contacts.basic_api.create") : CreateContactCreate(outcome)
    \/ \E outcome \in Outcomes("contacts.search_api.do_search") : ContactsSearch(outcome)
    \/ \E outcome \in Outcomes("api_request") : RecentEngagements(outcome)
    \/ Wrap
    \/ RespondRecorded

SpecHistory == Init /\ [][NextHistory]_vars

\* the leaves of the trees offered to convert_datetime_fields
Leaves ==
    { ScStr(<<"x">>), ScStr(IsoFormat(1)), ScInt(1), ScNull, Datetime(0), Datetime(3), Tzlocal }

\* lists of at most MaxItems leaves and dicts over the keys a, b
FlatTrees ==
    { TList(items) : items \in UNION { [1..n -> Leaves] : n \in 0..MaxItems } }
    \cup { TDict(d) : d \in UNION { [keys -> Leaves] : keys \in SUBSET {"a", "b"} } }

\* leaves, flat trees, and flat trees nested in a list or in a dict
Trees ==
    Leaves \cup FlatTrees
    \cup { TList(<<x>>) : x \in FlatTrees }
    \cup { TDict(("a" :> x) @@ ("at" :> Datetime(0))) : x \in FlatTrees }

InitNormalize ==
    /\ contacts = <<>>
    /\ companies = <<>>
    /\ g = GIdle
    /\ a = AIdle
    /\ calls = <<>>
    /\ now \in Clock
    /\ served = 0
    /\ prev = NoPrev
    /\ input \in Trees
    /\ output = NoProps
    /\ zone = Zone(0, 0, 0)
    /\ peer = PeerIdle

\* a tree goes through convert_datetime_fields, and its result once more
Normalize ==
    /\ "t" \in DOMAIN input
    /\ output = NoProps
    /\ output' = [once |-> convert_datetime_fields(input),
                  twice |-> convert_datetime_fields(convert_datetime_fields(input))]
    /\ UNCHANGED <<contacts, companies, g, a, calls, now, served, prev, input, zone, peer>>

NextNormalize == Normalize

SpecNormalize == InitNormalize /\ [][NextNormalize]_vars

\* lines 39-197: list_tools answers with the catalog
ListTools ==
    /\ g.pc = "idle"
    /\ output' = [tools |-> handle_list_tools]
    /\ UNCHANGED <<contacts, companies, g, a, calls, now, served, prev, input, zone, peer>>

\* the gateway answering list_tools between invocations
NextCatalog ==
    \/ Next
    \/ ListTools

SpecCatalog == Init /\ [][NextCatalog]_vars

\* get_recent_engagements called directly, in each local time zone
WindowParams ==
    { ("days" :> IntV(d)) @@ ("limit" :> IntV(l)) : d \in {0, 1, 2, 3, 4, 7}, l \in {0, 2, 50} }

InitWindow ==
    /\ contacts \in InitialContacts
    /\ companies \in InitialCompanies
    /\ g = GIdle
    /\ a = AIdle
    /\ calls = <<>>
    /\ now \in Clock
    /\ served = 0
    /\ prev = NoPrev
    /\ input = NoProps
    /\ output = NoProps
    /\ zone \in Zones
    /\ peer = PeerIdle

NextWindow ==
    \/ \E params \in WindowParams : Invoke("get_recent_engagements", params)
    \/ \E outcome \in Outcomes("api_request") : RecentEngagements(outcome)
    \/ Collect

SpecWindow == InitWindow /\ [][NextWindow]_vars

\* get_recent_companies called directly on upstreams holding 0, 1, 3 and 5
\* companies with pairwise distinct last-modified instants, oldest first (ids
\* are in order of creation, not of modification)
RecentStores ==
    { <<>>,
      << Object(1, "name" :> ScStr(<<"X">>), 1) >>,
      << Object(2, "name" :> ScStr(<<"Y">>), 2), Object(3, "name" :> ScStr(<<"Z">>), 4),
         Object(1, "name" :> ScStr(<<"X">>), 7) >>,
      << Object(4, "name" :> ScStr(<<"W">>), 4), Object(1, "name" :> ScStr(<<"X">>), 5),
         Object(5, "name" :> ScStr(<<"V">>), 6), Object(3, "name" :> ScStr(<<"Z">>), 8),
         Object(2, "name" :> ScStr(<<"Y">>), 9) >> }

RecentLimits == { "limit" :> IntV(l) : l \in {0, 1, 2, 3, 4, 5, 10} }

InitRecent ==
    /\ contacts \in InitialContacts
    /\ companies \in RecentStores
    /\ g = GIdle
    /\ a = AIdle
    /\ calls = <<>>
    /\ now \in Clock
    /\ served = 0
    /\ prev = NoPrev
    /\ input = NoProps
    /\ output = NoProps
    /\ zone = Zone(0, 0, 0)
    /\ peer = PeerIdle

NextRecent ==
    \/ \E params \in RecentLimits : Invoke("get_recent_companies", params)
    \/ \E outcome \in Outcomes("companies.search_api.do_search") : CompaniesSearch(outcome)
    \/ Collect

SpecRecent == InitRecent /\ [][NextRecent]_vars

\* two gateway processes on one upstream account, each receiving one
\* hubspot_create_contact; the upstream holds no contact to begin with
ConcurrentBags ==
    { Bag(NamesAL),
      Bag(NamesAL @@ ("email" :> StrV(<<"a", "@", "x">>))),
      Bag(("firstname" :> B_) @@ ("lastname" :> L_)) }

InitConcurrent ==
    /\ contacts = <<>>
    /\ companies \in InitialCompanies
    /\ g = GIdle
    /\ a = AIdle
    /\ calls = <<>>
    /\ now \in Clock
    /\ served = MaxCalls - 1
    /\ prev = NoPrev
    /\ input = NoProps
    /\ output = NoProps
    /\ zone = Zone(0, 0, 0)
    /\ peer = [PeerIdle EXCEPT !.served = MaxCalls - 1]

NextConcurrent ==
    \/ \E arguments \in ConcurrentBags : CallTool("hubspot_create_contact", arguments)
    \/ \E outcome \in Outcomes("contacts.search_api.do_search") : CreateContactSearch(outcome)
    \/ \E outcome \in Outcomes("contacts.basic_api.create") : CreateContactCreate(outcome)
    \/ \E arguments \in ConcurrentBags : PeerCallTool(arguments)
    \/ \E outcome \in Outcomes("contacts.search_api.do_search") : PeerSearch(outcome)
    \/ \E outcome \in Outcomes("contacts.basic_api.create") : PeerCreate(outcome)

SpecConcurrent == InitConcurrent /\ [][NextConcurrent]_vars

\* the steps of an invocation in progress: an upstream call returns or
\* raises, or the handler wraps what the method returned
Progress ==
    \/ \E outcome \in Outcomes("contacts.search_api.do_search") : CreateContactSearch(outcome)
    \/ \E outcome \in Outcomes("contacts.basic_api.create") : CreateContactCreate(outcome)
    \/ \E outcome \in Outcomes("companies.search_api.do_search") : CreateCompanySearch(outcome)
    \/ \E outcome \in Outcomes("companies.basic_api.create") : CreateCompanyCreate(outcome)
    \/ AccessStep
    \/ Wrap

\* the gateway on an upstream without objects to begin with, when every
\* upstream call ends (returns or raises) and the handler, which never
\* yields, runs on
InitLive ==
    /\ contacts = <<>>
    /\ companies = <<>>
    /\ g = GIdle
    /\ a = AIdle
    /\ calls = <<>>
    /\ now \in Clock
    /\ served = 0
    /\ prev = NoPrev
    /\ input = NoProps
    /\ output = NoProps
    /\ zone = Zone(0, 0, 0)
    /\ peer = PeerIdle

SpecLive == InitLive /\ [][Next]_vars /\ WF_vars(Progress)

-----------------------------------------------------------------------------
(* Properties *)

\* what a returned result is
IsOneText(ret) ==
    /\ ~ret.raised
    /\ Len(ret.content) = 1
    /\ ret.content[1].type = "text"

ResultText(ret) == ret.content[1].text

IsErrorResult(ret) ==
    /\ IsOneText(ret)
    /\ \/ ResultText(ret).prefix \in {"Error: ", "HubSpot API error: "}
       \/ ResultText(ret).payload.kind = "error"

AllFailed(trace) == trace # <<>> /\ \A i \in 1..Len(trace) : trace[i].outcome # "ok"

AllSucceeded(trace) == \A i \in 1..Len(trace) : trace[i].outcome = "ok"

\* C1: whatever the tool name, the argument bag and the outcome of each
\* upstream call, an invocation that has ended did not let a failure out and
\* returned a list of exactly one content item, of the text variant
C1_OneTextItem == g.pc = "done" => IsOneText(g.ret)

\* an invocation of a catalog tool has ended with every upstream call failed
C1_Witness ==
    /\ g.pc = "done"
    /\ g.name \in CatalogNames
    /\ AllFailed(calls)
    /\ IsOneText(g.ret)

\* C5: an invocation whose name is not in the catalog ends at once with the
\* text "Error: Unknown tool: <name>" and issues no upstream call, whatever
\* its argument bag
C5_UnknownTool ==
    (g.pc # "idle" /\ g.name \notin CatalogNames) =>
        /\ g.pc = "done"
        /\ calls = <<>>
        /\ a.pc = "idle"
        /\ IsOneText(g.ret)
        /\ ResultText(g.ret).prefix = "Error: "
        /\ ResultText(g.ret).msg = <<"Unknown tool: ", g.name>>

\* an unknown name was invoked with a non-empty argument bag
C5_Witness ==
    /\ g.pc = "done"
    /\ g.name = "unknown_tool_xyz"
    /\ ~NotArguments(g.arguments)

\* a required parameter of the tool is not in the argument bag
MissingRequired(name, arguments) ==
    /\ name \in CatalogNames
    /\ CatalogTool(name).required # {}
    /\ \/ NotArguments(arguments)
       \/ \E r \in CatalogTool(name).required : ~Has(arguments, r)

\* C6: an invocation of a tool that declares a required parameter, with the
\* argument bag absent, empty or lacking that parameter, ends at once with a
\* text error result; no upstream call and no HubSpotClient method is entered
C6_ValidationShortCircuit ==
    (g.pc # "idle" /\ MissingRequired(g.name, g.arguments)) =>
        /\ g.pc = "done"
        /\ calls = <<>>
        /\ a.pc = "idle"
        /\ IsOneText(g.ret)
        /\ ResultText(g.ret).prefix = "Error: "

\* get_company_activity was invoked with arguments that lack company_id
C6_Witness ==
    /\ g.pc = "done"
    /\ g.name = "hubspot_get_company_activity"
    /\ ~NotArguments(g.arguments)
    /\ MissingRequired(g.name, g.arguments)

\* every argument the tool's inputSchema declares has the declared JSON type
WellTyped(name, arguments) ==
    \A k \in DOMAIN arguments.m \cap CatalogTool(name).properties :
        arguments.m[k].t = ParamType(k)

CreateTools == {"hubspot_create_contact", "hubspot_create_company"}

\* the idempotency search site of a create tool and its create site
SearchSite(name) == IF name = "hubspot_create_contact" THEN "contacts" ELSE "companies"

CreateSite(name) == IF name = "hubspot_create_contact" THEN "contacts.create" ELSE "companies.create"

StoreOf(name) == IF name = "hubspot_create_contact" THEN contacts ELSE companies

ExistsPrefix(name) ==
    IF name = "hubspot_create_contact" THEN "Contact already exists: " ELSE "Company already exists: "

\* C3: in an invocation of hubspot_create_contact or hubspot_create_company,
\* a create call is issued only directly after the exact-match search of the
\* same invocation returned total = 0; when that search returned total > 0
\* the invocation has ended without a create call and its text is the
\* "already exists" representation of the first matching record
C3_SearchBeforeCreate ==
    (g.pc # "idle" /\ g.name \in CreateTools) =>
        /\ \A i \in 1..Len(calls) :
              calls[i].site = CreateSite(g.name) =>
                  /\ i = 2
                  /\ calls[1].site = SearchSite(g.name)
                  /\ calls[1].outcome = "ok"
                  /\ calls[1].total = 0
        /\ \A i \in 1..Len(calls) :
              (calls[i].site = SearchSite(g.name) /\ calls[i].total > 0) =>
                  /\ Len(calls) = 1
                  /\ g.pc = "done"
                  /\ IsOneText(g.ret)
                  /\ ResultText(g.ret).prefix = ExistsPrefix(g.name)
                  /\ ResultText(g.ret).obj = ToDict(Matching(StoreOf(g.name), g.filters)[1])

\* a record was created earlier in the run (after a search with total = 0)
\* and this invocation's search found a match and ended without creating
C3_Witness ==
    /\ g.pc = "done"
    /\ g.name = "hubspot_create_contact"
    /\ Len(contacts) \in {1, 3}
    /\ Len(calls) = 1
    /\ calls[1].total > 0
    /\ ResultText(g.ret).prefix = "Contact already exists: "

\* what int() makes of the values the model offers for days and limit
CoercionTable ==
    { <<IntV(0), 0>>, <<IntV(1), 1>>, <<IntV(2), 2>>, <<IntV(3), 3>>, <<IntV(-1), -1>>,
      <<BoolV(TRUE), 1>>, <<FloatV(25), 2>>, <<FloatV(15), 1>>, <<FloatV(-15), -1>>,
      <<StrV(<<"2">>), 2>>, <<StrV(<<" ", "1", "2", " ">>), 12>>, <<StrV(<<"-", "1">>), -1>> }

Coercible(v) == \E p \in CoercionTable : p[1] = v

Coerced(v) == (CHOOSE p \in CoercionTable : p[1] = v)[2]

\* the parameter is not supplied: no bag, an empty bag, no such key, or null
Unsupplied(arguments, key) ==
    \/ arguments.absent
    \/ key \notin DOMAIN arguments.m
    \/ arguments.m[key].t = "null"

CoercingTools ==
    {"hubspot_get_recent_engagements", "hubspot_get_active_companies",
     "hubspot_get_active_contacts", "hubspot_conversations_recent"}

CoercedParams(name) ==
    IF name = "hubspot_get_recent_engagements" THEN {"days", "limit"} ELSE {"limit"}

DefaultOf(name, key) ==
    IF name = "hubspot_get_recent_engagements"
    THEN (IF key = "days" THEN 7 ELSE 50)
    ELSE 10

MethodOf(name) ==
    CASE name = "hubspot_get_recent_engagements" -> "get_recent_engagements"
      [] name = "hubspot_get_active_companies" -> "get_recent_companies"
      [] name = "hubspot_get_active_contacts" -> "get_recent_contacts"
      [] name = "hubspot_conversations_recent" -> "get_recent_conversations"

\* C9: for the four tools that take days / limit, an unsupplied parameter
\* reaches the HubSpotClient method as its default (days 7 and limit 50 for
\* engagements, limit 10 for the others), a supplied one as its integer
\* coercion; a supplied value that int() rejects ends the invocation with a
\* text error result and no HubSpotClient method is entered
C9_DefaultsAndCoercion ==
    (g.pc # "idle" /\ g.name \in CoercingTools) =>
        IF \E k \in CoercedParams(g.name) :
               ~Unsupplied(g.arguments, k) /\ ~Coercible(g.arguments.m[k])
        THEN /\ g.pc = "done"
             /\ IsOneText(g.ret)
             /\ ResultText(g.ret).prefix = "Error: "
             /\ a.pc = "idle"
             /\ calls = <<>>
        ELSE /\ a.pc # "idle"
             /\ a.op = MethodOf(g.name)
             /\ DOMAIN a.params = CoercedParams(g.name)
             /\ \A k \in CoercedParams(g.name) :
                   a.params[k] = IntV(IF Unsupplied(g.arguments, k)
                                      THEN DefaultOf(g.name, k)
                                      ELSE Coerced(g.arguments.m[k]))

\* get_recent_engagements was entered with the default days and the limit
\* coerced from the string " 12 "
C9_Witness ==
    /\ g.name = "hubspot_get_recent_engagements"
    /\ g.arguments = Bag("limit" :> StrV(<<" ", "1", "2", " ">>))
    /\ a.pc # "idle"
    /\ a.params = ("days" :> IntV(7)) @@ ("limit" :> IntV(12))

\* C4: an invocation of a catalog tool whose required arguments are present,
\* whose arguments have the declared types and whose upstream calls all
\* succeeded has ended with a result that is not an error result
C4_Original ==
    ( /\ g.pc = "done"
      /\ g.name \in CatalogNames
      /\ ~MissingRequired(g.name, g.arguments)
      /\ WellTyped(g.name, g.arguments)
      /\ AllSucceeded(calls) )
    => ~IsErrorResult(g.ret)

\* C2: when hubspot_create_contact is invoked twice in a row with the same
\* well-typed argument bag (firstname, lastname, optional email and
\* properties) and every upstream call of both invocations succeeds, the
\* second invocation returns "Contact already exists" and issues no create
C2_Original ==
    ( /\ g.pc = "done"
      /\ g.name = "hubspot_create_contact"
      /\ prev.name = "hubspot_create_contact"
      /\ prev.arguments = g.arguments
      /\ ~MissingRequired(g.name, g.arguments)
      /\ WellTyped(g.name, g.arguments)
      /\ AllSucceeded(prev.calls)
      /\ AllSucceeded(calls)
      /\ IsOneText(prev.ret)
      /\ ~IsErrorResult(prev.ret) )
    => /\ IsOneText(g.ret)
       /\ ResultText(g.ret).prefix = "Contact already exists: "
       /\ \A i \in 1..Len(calls) : calls[i].site # "contacts.create"

\* the sub-fetches of get_recent_conversations whose failure is contained
FailSoftSites == {"channels", "conversations", "messages"}

\* C7: a HubSpotClient method that has returned did not raise, and when an
\* upstream call it made failed, other than a fail-soft sub-fetch of
\* get_recent_conversations, what it returned is the payload
\* {"error": <the failure's message>}
C7_NeverRaises ==
    a.pc = "returned" =>
        /\ ~a.ret.raised
        /\ \A i \in 1..Len(calls) :
              (calls[i].outcome # "ok" /\ calls[i].site \notin FailSoftSites) =>
                  /\ a.ret.payload.kind = "error"
                  /\ a.ret.payload.msg = <<calls[i].api, " failed">>
                  /\ a.ret.payload.data = <<>>

\* get_company_activity returned after its second upstream call, the detail
\* fetch, failed with an exception that is no ApiException
C7_Witness ==
    /\ a.pc = "returned"
    /\ a.op = "get_company_activity"
    /\ Len(calls) = 2
    /\ calls[2].outcome = TransportError
    /\ a.ret.payload.kind = "error"

\* the sub-fetch at this site for this inbox or conversation failed
FailedAt(site, id) ==
    \E i \in 1..Len(calls) :
        /\ calls[i].site = site
        /\ calls[i].outcome # "ok"
        /\ IF site = "messages"
           THEN calls[i].params.path[2] = id
           ELSE calls[i].params.params.inboxId = id

\* the record of one conversation in a run without failures, with its
\* messages emptied when exactly their fetch failed
RefConversation(conversation) ==
    LET id == JGet(conversation, "id", None)
    IN  ("messages" :> (IF FailedAt("messages", id)
                        THEN <<>>
                        ELSE FormatMessages(UpMessages(id))))
        @@ FormatConversation(conversation)

\* the record of one inbox in a run without failures, with each of its two
\* collections emptied when exactly its own fetch failed
RefInbox(inbox, limit) ==
    LET id == JGet(inbox, "id", None)
        results == JGet(UpConversations(id, limit), "results", EmptyList)
    IN  ("channels" :> (IF FailedAt("channels", id)
                        THEN <<>>
                        ELSE FormatChannels(UpChannels(id))))
        @@ ("conversations" :> (IF FailedAt("conversations", id)
                                THEN <<>>
                                ELSE [i \in 1..Len(results) |-> RefConversation(results[i])]))
        @@ FormatInbox(inbox)

\* C8: get_recent_conversations, once its inboxes fetch succeeded, returns
\* one record per inbox; a channels, conversations or messages fetch that
\* failed empties that collection only, and every other collection and
\* record is what a run without that failure returns
C8_PartialFailureContained ==
    ( /\ a.pc = "returned"
      /\ a.op = "get_recent_conversations"
      /\ calls # <<>>
      /\ calls[1].outcome = "ok" )
    => LET inboxes == JGet(UpInboxes(Limit(a)), "results", EmptyList)
       IN  /\ ~a.ret.raised
           /\ a.ret.payload.kind = "data"
           /\ a.ret.payload.data =
                  [i \in 1..Len(inboxes) |-> RefInbox(inboxes[i], Limit(a))]

\* the conversations fetch of the first inbox failed and its channels fetch
\* did not: the inbox is returned with its channels and no conversations,
\* and the second inbox has its conversations
C8_Witness ==
    /\ a.pc = "returned"
    /\ a.op = "get_recent_conversations"
    /\ FailedAt("conversations", ScStr(<<"i1">>))
    /\ ~FailedAt("channels", ScStr(<<"i1">>))
    /\ a.ret.payload.kind = "data"
    /\ Len(a.ret.payload.data) = 2
    /\ a.ret.payload.data[1].channels # <<>>
    /\ a.ret.payload.data[1].conversations = <<>>
    /\ a.ret.payload.data[2].conversations # <<>>

\* the scalar content fields of each type: the metadata key read and the
\* key of the formatted content it fills
ScalarFields(type) ==
    CASE type = "EMAIL" -> { <<"subject", "subject">> }
      [] type = "TASK" ->
            { <<"subject", "subject">>, <<"body", "body">>, <<"status", "status">>,
              <<"forObjectType", "for_object_type">> }
      [] type = "MEETING" ->
            { <<"title", "title">>, <<"body", "body">>, <<"startTime", "start_time">>,
              <<"endTime", "end_time">>, <<"internalMeetingNotes", "internal_notes">> }
      [] type = "CALL" ->
            { <<"body", "body">>, <<"fromNumber", "from_number">>, <<"toNumber", "to_number">>,
              <<"durationMilliseconds", "duration_ms">>, <<"status", "status">>,
              <<"disposition", "disposition">> }
      [] OTHER -> {}

\* the type of a raw engagement record, "" when it holds none
RawType(raw) ==
    IF "engagement" \in DOMAIN raw /\ "type" \in DOMAIN raw.engagement
    THEN raw.engagement.type.s[1]
    ELSE ""

\* the formatted record has a content in which every absent field of the raw
\* record is the empty string, and every absent substructure is rendered
\* from an empty mapping or list
AbsentAsEmpty(raw, formatted) ==
    LET type == raw.engagement.type.s[1]
        absent(k) == k \notin DOMAIN raw.metadata
    IN  /\ "content" \in DOMAIN formatted
        /\ type = "NOTE" => (absent("body") => formatted.content = EmptyString)
        /\ \A f \in ScalarFields(type) :
              absent(f[1]) => formatted.content[f[2]] = EmptyString
        /\ type = "EMAIL" =>
              /\ absent("from") =>
                    formatted.content.from = [raw |-> EmptyString, email |-> EmptyString,
                                              firstName |-> EmptyString, lastName |-> EmptyString]
              /\ absent("sender") => formatted.content.sender = [email |-> EmptyString]
              /\ \A k \in {"to", "cc", "bcc"} : absent(k) => formatted.content[k] = <<>>
              /\ (absent("text") /\ absent("html")) => formatted.content.body = EmptyString

\* C10: for an engagement of type NOTE, EMAIL, TASK, MEETING or CALL with
\* any subset of its metadata fields absent, both formatters produce a
\* record in which every absent scalar content field, MEETING start_time /
\* end_time and CALL duration_ms included, is the empty string and every
\* absent substructure is rendered from an empty mapping or list
C10_Original ==
    (output # NoProps /\ RawType(input) \in EngagementTypes /\ "metadata" \in DOMAIN input) =>
        /\ AbsentAsEmpty(input, output.activity)
        /\ AbsentAsEmpty(input, output.recent)

\* an EMAIL record with a metadata mapping went through both formatters
EmailFormatted ==
    /\ output # NoProps
    /\ RawType(input) = "EMAIL"
    /\ "metadata" \in DOMAIN input

\* C11 as stated: for every EMAIL engagement the body is the text value
\* whenever text is present, and the html value when text is not present
C11_Original ==
    EmailFormatted =>
        \A formatted \in {output.activity, output.recent} :
            formatted.content.body =
                (IF "text" \in DOMAIN input.metadata
                 THEN input.metadata["text"]
                 ELSE JGet(input.metadata, "html", EmptyString))

\* a text value that counts: present, not null and not the empty string
HasText(metadata) ==
    /\ "text" \in DOMAIN metadata
    /\ metadata["text"].t = "str"
    /\ metadata["text"].s # <<>>

\* C11: for every EMAIL engagement the body is the text value when text is
\* present and non-empty; otherwise (text absent, null or empty) it is the
\* html value, or the empty string when html is absent too.  With only text
\* present body = text, with only html present body = html
C11_BodySelection ==
    EmailFormatted =>
        \A formatted \in {output.activity, output.recent} :
            /\ HasText(input.metadata) => formatted.content.body = input.metadata["text"]
            /\ ~HasText(input.metadata) =>
                  formatted.content.body =
                      (IF "html" \in DOMAIN input.metadata
                       THEN input.metadata["html"]
                       ELSE ScStr(<<>>))

\* an EMAIL whose text is present but empty and whose html is filled was
\* formatted: the body is the html value
C11_Witness ==
    /\ EmailFormatted
    /\ "text" \in DOMAIN input.metadata
    /\ input.metadata["text"] = ScStr(<<>>)
    /\ "html" \in DOMAIN input.metadata
    /\ output.activity.content.body = ScStr(<<"<p>">>)

\* C12: get_company_activity and get_recent_engagements format every raw
\* engagement record to the same formatted record: any type, known or not,
\* any set of metadata fields, with or without the engagement, metadata and
\* associations keys
C12_SameFormatting ==
    output # NoProps => output.activity = output.recent

\* a record of a type without a branch went through both formatters and
\* neither added a content key
C12_Witness ==
    /\ output # NoProps
    /\ RawType(input) = "INCOMING_EMAIL"
    /\ "content" \notin DOMAIN output.activity
    /\ "content" \notin DOMAIN output.recent
    /\ output.recent.type = TypeOf("INCOMING_EMAIL")

\* no upstream call of the trace created a record
NoCreate(trace) ==
    \A i \in 1..Len(trace) :
        ~(trace[i].site \in {"contacts.create", "companies.create"} /\ trace[i].outcome = "ok")

\* the upstream answered the two traces alike, call by call
SameOutcomes(s, t) ==
    /\ Len(s) = Len(t)
    /\ \A i \in 1..Len(s) : s[i].outcome = t[i].outcome

\* C13: an invocation leaves nothing behind in the gateway or in
\* HubSpotClient: when the same name and arguments are invoked again, the
\* upstream holds the same records (the earlier invocation created none), the
\* clock is the same and the upstream answers each call alike, the invocation
\* issues the same upstream calls and returns the same result, whatever
\* invocations came before it
C13_Stateless ==
    ( /\ g.pc = "done"
      /\ prev # NoPrev
      /\ prev.name = g.name
      /\ prev.arguments = g.arguments
      /\ NoCreate(prev.calls)
      /\ SameOutcomes(prev.calls, calls) )
    => /\ g.ret = prev.ret
       /\ calls = prev.calls

\* get_active_contacts was invoked a second time with the same limit after
\* the first invocation returned data, and returned data again
C13_Witness ==
    /\ g.pc = "done"
    /\ served = 2
    /\ g.name = "hubspot_get_active_contacts"
    /\ prev.name = g.name
    /\ prev.arguments = g.arguments
    /\ Len(calls) = 1
    /\ calls[1].outcome = "ok"
    /\ prev.calls = calls
    /\ Len(contacts) = 2
    /\ ResultText(g.ret).payload.kind = "data"

\* the result is the answer of the dispatcher's final else for this name
IsUnknownAnswer(ret, name) ==
    /\ IsOneText(ret)
    /\ ResultText(ret).prefix = "Error: "
    /\ ResultText(ret).msg = <<"Unknown tool: ", name>>

\* C14: the names of the catalog list_tools returns are pairwise distinct,
\* the catalog is the same whatever invocations were made before, and an
\* invocation is answered "Unknown tool" exactly when its name is not a name
\* of the catalog
C14_CatalogConsistent ==
    /\ output # NoProps =>
          /\ output.tools = handle_list_tools
          /\ \A i, j \in 1..Len(output.tools) :
                i # j => output.tools[i].name # output.tools[j].name
          /\ g.pc = "done" =>
                (IsUnknownAnswer(g.ret, g.name) <=>
                    ~\E i \in 1..Len(output.tools) : output.tools[i].name = g.name)
    /\ g.pc = "done" => (IsUnknownAnswer(g.ret, g.name) <=> g.name \notin CatalogNames)

\* list_tools was answered after an earlier invocation, and a name that
\* resembles a tool but is not in the catalog was then answered "Unknown tool"
C14_Witness ==
    /\ output # NoProps
    /\ served = 2
    /\ g.pc = "done"
    /\ g.name = "hubspot_get_contacts"
    /\ IsUnknownAnswer(g.ret, g.name)
    /\ Len(output.tools) = 14

\* a native temporal value: a datetime or a tzlocal
Temporal(v) == v.t \in {"datetime", "tzlocal"}

\* no native temporal value is left anywhere in the tree
RECURSIVE NoTemporal(_)
NoTemporal(v) ==
    CASE v.t = "dict" -> \A k \in DOMAIN v.d : NoTemporal(v.d[k])
      [] v.t = "list" -> \A i \in 1..Len(v.items) : NoTemporal(v.items[i])
      [] OTHER -> ~Temporal(v)

\* the converted tree has the shape of the original, its non-temporal leaves
\* unchanged, an ISO-8601 string where a datetime was and a "UTC+HH:MM"
\* string where a tzlocal was
RECURSIVE Normalized(_, _)
Normalized(v, w) ==
    CASE v.t = "dict" ->
            /\ w.t = "dict"
            /\ DOMAIN w.d = DOMAIN v.d
            /\ \A k \in DOMAIN v.d : Normalized(v.d[k], w.d[k])
      [] v.t = "list" ->
            /\ w.t = "list"
            /\ Len(w.items) = Len(v.items)
            /\ \A i \in 1..Len(v.items) : Normalized(v.items[i], w.items[i])
      [] v.t = "datetime" -> w = ScStr(<<"1970-01-01T00:00:0", Digits[v.n + 1]>>)
      [] v.t = "tzlocal" ->
            /\ w.t = "str"
            /\ Len(w.s) = 4
            /\ w.s[1] = "UTC"
            /\ w.s[3] = ":"
      [] OTHER -> w = v

\* C15: for every tree of dicts, lists and scalars with datetime and tzlocal
\* values at any depth, convert_datetime_fields returns a tree of the same
\* shape with the same non-temporal leaves, in which no datetime or tzlocal
\* is left (each datetime is its ISO-8601 string, each tzlocal a UTC+HH:MM
\* string), and converting the result again returns the same tree
C15_Normalization ==
    output # NoProps =>
        /\ Normalized(input, output.once)
        /\ NoTemporal(output.once)
        /\ output.twice = output.once

\* a list holding a dict with a datetime and a tzlocal was converted
C15_Witness ==
    /\ output # NoProps
    /\ input = TList(<<TDict(("a" :> Datetime(3)) @@ ("b" :> Tzlocal))>>)
    /\ output.once # input
    /\ output.once.items[1].d["a"].t = "str"

\* C16: when get_recent_engagements(days, limit) has returned it has issued
\* exactly one upstream call, the window query, whose since is the current time
\* minus days * 86,400,000 milliseconds, whose count is limit and whose offset is 0
C16_Original ==
    (a.op = "get_recent_engagements" /\ a.pc = "returned") =>
        /\ Len(calls) = 1
        /\ calls[1].site = "recent"
        /\ calls[1].params.params.since = now - a.params["days"].n * DayMs
        /\ calls[1].params.params.count = a.params["limit"].n
        /\ calls[1].params.params.offset = 0

\* the rest of C16 without the since parameter: one query, count and offset
C16_OneQuery ==
    (a.op = "get_recent_engagements" /\ a.pc = "returned") =>
        /\ Len(calls) = 1
        /\ calls[1].site = "recent"
        /\ calls[1].params.params.count = a.params["limit"].n
        /\ calls[1].params.params.offset = 0

\* the i-th most recently modified object of a store
Newest(store, i) ==
    CHOOSE o \in { store[k] : k \in 1..Len(store) } :
        Cardinality({ k \in 1..Len(store) : store[k].updated_at > o.updated_at }) = i - 1

Min(m, n) == IF m < n THEN m ELSE n

\* C17: get_recent_companies(limit = n) sends one search carrying a descending
\* last-modified sort and limit n, and when the search succeeds on an upstream
\* holding m companies it returns exactly min(n, m) records, the i-th of them
\* being the i-th most recently modified company, normalized
C17_NewestFirst ==
    (a.op = "get_recent_companies" /\ a.pc = "returned") =>
        /\ Len(calls) = 1
        /\ calls[1].params.sorts = <<[propertyName |-> "lastmodifieddate", direction |-> "DESCENDING"]>>
        /\ calls[1].params.limit = a.params["limit"].n
        /\ AllSucceeded(calls) =>
              /\ ~a.ret.raised
              /\ a.ret.payload.kind = "data"
              /\ Len(a.ret.payload.data) = Min(a.params["limit"].n, Len(companies))
              /\ \A i \in 1..Len(a.ret.payload.data) :
                    /\ a.ret.payload.data[i] = ConvertObjects(<<ToDict(Newest(companies, i))>>)[1]
                    /\ \A j \in 1..Len(a.ret.payload.data) :
                          i < j => Newest(companies, i).updated_at > Newest(companies, j).updated_at

\* limit 3 on the upstream holding 5 companies: 3 records returned
C17_Witness ==
    /\ a.op = "get_recent_companies" /\ a.pc = "returned"
    /\ AllSucceeded(calls)
    /\ Len(companies) = 5
    /\ a.params["limit"].n = 3
    /\ Len(a.ret.payload.data) = 3
    /\ a.ret.payload.data[1].id = ScInt(2)

\* the create calls of a trace that created a record
CreatedBy(trace) == { i \in 1..Len(trace) : trace[i].site = "contacts.create" /\ trace[i].outcome = "ok" }

\* C18: when two hubspot_create_contact invocations with the same firstname
\* and lastname are in progress together on an upstream that held no matching
\* contact, at most one record is created across the two, whatever the order
\* of their search and create steps
C18_Original ==
    ( /\ g.name = "hubspot_create_contact"
      /\ peer.name = "hubspot_create_contact"
      /\ Get(g.arguments, "firstname") = Get(peer.arguments, "firstname")
      /\ Get(g.arguments, "lastname") = Get(peer.arguments, "lastname") )
    => Cardinality(CreatedBy(calls)) + Cardinality(CreatedBy(peer.calls)) <= 1

\* two records are created only when each search ran before the other
\* invocation's create, both finding no contact
C18_Serial ==
    ( /\ g.name = "hubspot_create_contact"
      /\ peer.name = "hubspot_create_contact"
      /\ Get(g.arguments, "firstname") = Get(peer.arguments, "firstname")
      /\ Get(g.arguments, "lastname") = Get(peer.arguments, "lastname")
      /\ Cardinality(CreatedBy(calls)) + Cardinality(CreatedBy(peer.calls)) > 1 )
    => calls[1].total = 0 /\ peer.calls[1].total = 0

\* the exception classes with which the upstream reports an API error
ApiErrors == {ContactsApiException, CompaniesApiException}

\* the answer of a create tool to the outcome of its last upstream call
ErrorPrefixes(name) ==
    (g.pc = "done" /\ g.name = name /\ Len(calls) > 0) =>
        /\ (calls[1].outcome \in ApiErrors) =>
              /\ Len(calls) = 1
              /\ IsOneText(g.ret)
              /\ ResultText(g.ret).prefix = "HubSpot API error: "
        /\ (Len(calls) = 2 /\ calls[2].outcome \in ApiErrors) =>
              /\ IsOneText(g.ret)
              /\ ResultText(g.ret).prefix = "HubSpot API error: "
        /\ (calls[Len(calls)].outcome = TransportError) =>
              /\ IsOneText(g.ret)
              /\ ResultText(g.ret).prefix = "Error: "

\* C19: in hubspot_create_contact and hubspot_create_company, a search that
\* fails with an upstream API error ends the invocation with a text prefixed
\* "HubSpot API error: " and without a create call, a create that fails with
\* an API error gives the same prefix, and any other raised condition gives a
\* text prefixed "Error: "
C19_Original ==
    /\ ErrorPrefixes("hubspot_create_contact")
    /\ ErrorPrefixes("hubspot_create_company")
    /\ (g.pc = "done" /\ g.name \in CreateTools /\ Len(calls) = 0) =>
          /\ IsOneText(g.ret)
          /\ ResultText(g.ret).prefix = "Error: "

\* the same for hubspot_create_contact alone
C19_Contact ==
    /\ ErrorPrefixes("hubspot_create_contact")
    /\ (g.pc = "done" /\ g.name = "hubspot_create_contact" /\ Len(calls) = 0) =>
          /\ IsOneText(g.ret)
          /\ ResultText(g.ret).prefix = "Error: "

\* C20: get_company_activity(company_id) first issues one associations
\* lookup for the company with limit 500, then one engagement-detail fetch per
\* associated engagement id, in the order of the associations, each after the
\* call before it succeeded; when every call succeeded it returns one
\* formatted activity per associated id in that order, and for an empty
\* association list it returns the empty list without a detail fetch
C20_LookupThenDetails ==
    (a.op = "get_company_activity" /\ a.pc # "idle") =>
        LET ids == UpAssociations(a.params["company_id"])
        IN  /\ (a.pc # "associations") = (Len(calls) >= 1)
            /\ Len(calls) <= 1 + Len(ids)
            /\ \A i \in 1..Len(calls) :
                  IF i = 1
                  THEN /\ calls[i].site = "associations"
                       /\ calls[i].params = [object_type |-> "companies",
                                             object_id |-> a.params["company_id"],
                                             to_object_type |-> "engagements", limit |-> 500]
                  ELSE /\ calls[i].site = "engagement"
                       /\ calls[i].params.path = <<"/engagements/v1/engagements/", ids[i - 1]>>
                       /\ calls[i - 1].outcome = "ok"
            /\ (a.pc = "returned" /\ AllSucceeded(calls)) =>
                  /\ Len(calls) = 1 + Len(ids)
                  /\ ~a.ret.raised
                  /\ a.ret.payload = DataPayload([i \in 1..Len(ids) |-> FormatActivity(UpEngagement(ids[i]))])

\* the company with two engagements: three calls, two activities in order
C20_Witness ==
    /\ a.op = "get_company_activity" /\ a.pc = "returned"
    /\ AllSucceeded(calls)
    /\ Len(calls) = 3
    /\ Len(a.ret.payload.data) = 2
    /\ a.ret.payload.data[1].type = TypeOf("NOTE")
    /\ a.ret.payload.data[2].type = TypeOf("EMAIL")

\* the company without engagements: the lookup alone, and the empty list
C20_WitnessEmpty ==
    /\ a.op = "get_company_activity" /\ a.pc = "returned"
    /\ AllSucceeded(calls)
    /\ Len(calls) = 1
    /\ a.ret.payload = DataPayload(<<>>)

\* the request of an upstream call carries a limit parameter
HasLimit(call) ==
    /\ "params" \in DOMAIN call.params
    /\ "limit" \in DOMAIN call.params.params

\* the calls a get_recent_conversations issues for each inbox
SubFetches == {"channels", "conversations", "messages"}

\* C21: in get_recent_conversations only the inboxes fetch carries the limit:
\* no channels, conversations or messages fetch has a limit parameter
C21_Original ==
    a.op = "get_recent_conversations" =>
        \A i \in 1..Len(calls) :
            /\ calls[i].site = "inboxes" => HasLimit(calls[i]) /\ calls[i].params.params.limit = Limit(a)
            /\ calls[i].site \in SubFetches => ~HasLimit(calls[i])

\* C21 as the code has it: the inboxes fetch and each inbox's conversations
\* fetch carry limit = the limit argument; the channels fetch of an inbox and
\* the messages fetch of a conversation carry no limit parameter
C21_LimitScope ==
    a.op = "get_recent_conversations" =>
        \A i \in 1..Len(calls) :
            /\ calls[i].site \in {"inboxes", "conversations"} =>
                  HasLimit(calls[i]) /\ calls[i].params.params.limit = Limit(a)
            /\ calls[i].site \in {"channels", "messages"} => ~HasLimit(calls[i])

\* a call with limit 1 that fetched the inbox, its channels, its one
\* conversation and that conversation's messages
C21_Witness ==
    /\ a.op = "get_recent_conversations" /\ a.pc = "returned"
    /\ Limit(a) = 1
    /\ Len(calls) = 4
    /\ calls[2].site = "channels" /\ calls[3].site = "conversations" /\ calls[4].site = "messages"

\* two upstream calls made the same request
SameRequest(c, d) == c.api = d.api /\ c.params = d.params

\* an upstream call failed and its failure is not contained by a try of its own
FailedHard(call) == call.outcome # "ok" /\ call.site \notin FailSoftSites

\* C22: within one invocation no upstream request is issued twice, a call that
\* failed outside the fail-soft sub-fetches is the last call of the invocation,
\* and the invocation then ends with an error result
C22_NoRetries ==
    /\ \A i, j \in 1..Len(calls) : (i < j) => ~SameRequest(calls[i], calls[j])
    /\ \A i \in 1..Len(calls) : FailedHard(calls[i]) => i = Len(calls)
    /\ (g.pc = "done" /\ \E i \in 1..Len(calls) : FailedHard(calls[i])) =>
          /\ IsOneText(g.ret)
          /\ IsErrorResult(g.ret)

\* hubspot_get_company_activity for the company with two engagements ended
\* with an error after the first detail fetch failed: the second was not issued
C22_Witness ==
    /\ g.pc = "done"
    /\ g.name = "hubspot_get_company_activity"
    /\ Len(calls) = 2
    /\ Len(UpAssociations(a.params["company_id"])) = 2
    /\ calls[2].outcome # "ok"
    /\ IsErrorResult(g.ret)

\* what an upstream call of get_recent_conversations asked for: its place in
\* the code and the inbox or conversation it is about
RequestOf(call) ==
    <<call.site,
      CASE call.site = "messages" -> call.params.path[2]
        [] call.site \in {"channels", "conversations"} -> call.params.params.inboxId
        [] OTHER -> None>>

\* the conversations fetch of an inbox was issued and failed
ConversationsFailed(inboxId) ==
    \E i \in 1..Len(calls) :
        /\ calls[i].site = "conversations"
        /\ calls[i].params.params.inboxId = inboxId
        /\ calls[i].outcome # "ok"

\* the fetches for one inbox, in order: its channels, its conversations, and
\* the messages of each conversation the conversations fetch returned
InboxPlan(inbox) ==
    LET inboxId == JGet(inbox, "id", None)
        conversations == JGet(UpConversations(inboxId, Limit(a)), "results", EmptyList)
    IN  << <<"channels", inboxId>>, <<"conversations", inboxId>> >>
        \o (IF ConversationsFailed(inboxId)
            THEN <<>>
            ELSE [k \in 1..Len(conversations) |-> <<"messages", JGet(conversations[k], "id", None)>>])

RECURSIVE InboxesPlan(_)
InboxesPlan(inboxes) ==
    IF inboxes = <<>> THEN <<>> ELSE InboxPlan(Head(inboxes)) \o InboxesPlan(Tail(inboxes))

\* the fetches of the whole call, given the outcomes of those issued so far
ConversationsPlan ==
    << <<"inboxes", None>> >>
    \o (IF calls # <<>> /\ calls[1].outcome = "ok"
        THEN InboxesPlan(JGet(UpInboxes(Limit(a)), "results", EmptyList))
        ELSE <<>>)

\* C23: the upstream calls of a get_recent_conversations are issued one after
\* the other in a fixed order: the inboxes fetch, then for each inbox in the
\* order returned its channels fetch, its conversations fetch and one messages
\* fetch per conversation in order, before any fetch for the next inbox; at
\* each moment exactly one next call is due, and the call returns when the
\* last one has ended
C23_SequentialOrder ==
    (a.op = "get_recent_conversations" /\ a.pc # "idle") =>
        /\ Len(calls) <= Len(ConversationsPlan)
        /\ \A i \in 1..Len(calls) : RequestOf(calls[i]) = ConversationsPlan[i]
        /\ IF a.pc = "returned"
           THEN Len(calls) = Len(ConversationsPlan)
           ELSE /\ Len(calls) < Len(ConversationsPlan)
                /\ a.pc = ConversationsPlan[Len(calls) + 1][1]

\* both inboxes, with two conversations and one, were fetched in full: 8 calls
C23_Witness ==
    /\ a.op = "get_recent_conversations" /\ a.pc = "returned"
    /\ AllSucceeded(calls)
    /\ Len(calls) = 8
    /\ calls[5].site = "messages"
    /\ calls[6].site = "channels"

\* C24: every invocation ends: if every upstream call ends, an invocation that
\* has begun reaches the state in which it has answered, with one text item
\* that is either a result or an error; and from that state its only step is
\* the delivery of the answer, with no further upstream call
C24_Terminates ==
    /\ (g.pc # "idle") ~> (g.pc = "done" /\ IsOneText(g.ret))
    /\ [][g.pc = "done" => (g'.pc = "idle" /\ calls' = <<>>)]_vars

\* the longest invocation of the model has answered: hubspot_get_company_activity
\* after its associations lookup and both detail fetches
C24_Witness ==
    /\ g.pc = "done"
    /\ g.name = "hubspot_get_company_activity"
    /\ Len(calls) = 3
    /\ AllSucceeded(calls)
    /\ ~IsErrorResult(g.ret)

\* C25: when a detail fetch of get_company_activity fails, the method returns
\* the payload {"error": <the failure's message>} alone, with none of the
\* activities formatted before the failure, and the failed fetch is its last
\* upstream call: the remaining engagement ids are not fetched
C25_AllOrNothing ==
    (a.op = "get_company_activity" /\ a.pc # "idle") =>
        \A i \in 1..Len(calls) :
            (calls[i].site = "engagement" /\ calls[i].outcome # "ok") =>
                /\ i = Len(calls)
                /\ a.pc = "returned"
                /\ ~a.ret.raised
                /\ a.ret.payload = ErrorPayload(UpstreamExc("api_request", calls[i].outcome))
                /\ a.ret.payload.data = <<>>

\* the second detail fetch failed after the first activity had been formatted
C25_Witness ==
    /\ a.op = "get_company_activity" /\ a.pc = "returned"
    /\ Len(calls) = 3
    /\ calls[2].outcome = "ok"
    /\ calls[3].outcome # "ok"
    /\ Len(a.acc) = 1
    /\ a.ret.payload.kind = "error"

\* the first detail fetch failed: the second engagement was never fetched
C25_WitnessRemaining ==
    /\ a.op = "get_company_activity" /\ a.pc = "returned"
    /\ Len(calls) = 2
    /\ calls[2].outcome # "ok"
    /\ Len(a.todo) = 2
    /\ a.ret.payload.kind = "error"

====
